---- MODULE Spec2Model ----
(***************************************************************************)
(* Model of the emission and checksum-oracle layer of the random program   *)
(* generator (src/src/program.cpp): ProgramGenerator::emit and the static  *)
(* helpers it drives, the generation-time hash and the emitted runtime     *)
(* hash routine.                                                           *)
(***************************************************************************)
EXTENDS Integers, Sequences, FiniteSets, TLC

(***************************************************************************)
(* Unsigned 64-bit words.  TLC integers are 32 bits wide, so an unsigned   *)
(* long long is kept as four 16-bit limbs, least significant first.        *)
(***************************************************************************)
Limb == 256 * 256

Word == [1..4 -> 0..(Limb - 1)]

ZeroW == <<0, 0, 0, 0>>

\* the word of a small natural number (n < 2^31)
NatW(n) == <<n % Limb, (n \div Limb) % Limb, 0, 0>>

\* (a + b) mod 2^64: limb-wise addition, the carry out of limb 4 is dropped
AddW(a, b) ==
    LET s1 == a[1] + b[1]
        s2 == a[2] + b[2] + (s1 \div Limb)
        s3 == a[3] + b[3] + (s2 \div Limb)
        s4 == a[4] + b[4] + (s3 \div Limb)
    IN  <<s1 % Limb, s2 % Limb, s3 % Limb, s4 % Limb>>

\* (a << 6) mod 2^64
Shl6W(a) ==
    << (a[1] * 64) % Limb,
       ((a[2] * 64) % Limb) + (a[1] \div 1024),
       ((a[3] * 64) % Limb) + (a[2] \div 1024),
       ((a[4] * 64) % Limb) + (a[3] \div 1024) >>

\* a >> 2
Shr2W(a) ==
    << (a[1] \div 4) + ((a[2] % 4) * 16384),
       (a[2] \div 4) + ((a[3] % 4) * 16384),
       (a[3] \div 4) + ((a[4] % 4) * 16384),
       a[4] \div 4 >>

RECURSIVE XorLimb(_, _)
XorLimb(a, b) ==
    IF a = 0 THEN b
    ELSE IF b = 0 THEN a
    ELSE ((a + b) % 2) + 2 * XorLimb(a \div 2, b \div 2)

\* a ^ b
XorW(a, b) == [i \in 1..4 |-> XorLimb(a[i], b[i])]

\* (0 - a) mod 2^64: what a negative value becomes when converted to
\* unsigned long long
NegW(a) == AddW([i \in 1..4 |-> (Limb - 1) - a[i]], NatW(1))

\* the literal 0x9e3779b9
Golden == <<31161, 40503, 0, 0>>

(***************************************************************************)
(* ProgramGenerator::hash: hash_seed ^= v + 0x9e3779b9 + (hash_seed << 6)  *)
(* + (hash_seed >> 2), on unsigned long long.                              *)
(***************************************************************************)
hash_shr4(seed, v) ==
    XorW(seed, AddW(AddW(AddW(v, Golden), Shl6W(seed)), Shr2W(Shr2W(seed))))

hash(seed, v) ==
    XorW(seed, AddW(AddW(AddW(v, Golden), Shl6W(seed)), Shr2W(seed)))

(***************************************************************************)
(* The emitted runtime routine                                             *)
(*   void hash(unsigned long long int* seed, unsigned long long int v)     *)
(*   { seed[0] ^= v + 0x9e3779b9 + (seed[0] << 6) + (seed[0] >> 2); }      *)
(* evaluated the way the compiled program evaluates it: on 64-bit vectors, *)
(* bit 1 the least significant.                                            *)
(***************************************************************************)
Bits == 1..64

RECURSIVE LimbBits(_, _)
LimbBits(n, k) ==
    IF k = 0 THEN <<>> ELSE <<n % 2>> \o LimbBits(n \div 2, k - 1)

BitsOfW(w) ==
    LimbBits(w[1], 16) \o LimbBits(w[2], 16) \o LimbBits(w[3], 16)
        \o LimbBits(w[4], 16)

RECURSIVE LimbOfBits(_, _, _)
LimbOfBits(b, lo, k) ==
    IF k = 16 THEN 0 ELSE b[lo + k] + 2 * LimbOfBits(b, lo, k + 1)

WOfBits(b) == <<LimbOfBits(b, 1, 0), LimbOfBits(b, 17, 0),
                LimbOfBits(b, 33, 0), LimbOfBits(b, 49, 0)>>

\* a + b by ripple carry from bit i on; the carry out of bit 64 is lost
RECURSIVE AddBitsFrom(_, _, _, _)
AddBitsFrom(a, b, i, carry) ==
    IF i > 64 THEN <<>>
    ELSE <<(a[i] + b[i] + carry) % 2>>
            \o AddBitsFrom(a, b, i + 1, (a[i] + b[i] + carry) \div 2)

AddBits(a, b) == AddBitsFrom(a, b, 1, 0)

RECURSIVE ShlBits(_, _)
ShlBits(a, n) ==
    IF n = 0 THEN a ELSE ShlBits(<<0>> \o SubSeq(a, 1, 63), n - 1)

RECURSIVE ShrBits(_, _)
ShrBits(a, n) ==
    IF n = 0 THEN a ELSE ShrBits(SubSeq(a, 2, 64) \o <<0>>, n - 1)

RECURSIVE XorBitsFrom(_, _, _)
XorBitsFrom(a, b, i) ==
    IF i > 64 THEN <<>>
    ELSE <<(a[i] + b[i]) % 2>> \o XorBitsFrom(a, b, i + 1)

XorBits(a, b) == XorBitsFrom(a, b, 1)

emitted_hash(seed, v) ==
    LET s == BitsOfW(seed)
        sum == AddBits(AddBits(AddBits(BitsOfW(v), BitsOfW(Golden)),
                               ShlBits(s, 6)), ShrBits(s, 2))
    IN  WOfBits(XorBits(s, sum))

(***************************************************************************)
(* Symbols, symbol tables and Options as the emission layer reads them.    *)
(***************************************************************************)
VARIABLES
    ext_inp_sym_tbl,        \* [vars, arrays]: the input-facing symbol table
    ext_out_sym_tbl,        \* [vars, arrays]: the output-facing symbol table
    options,                \* Options::getInstance()
    emit_calls,             \* how many times the driver calls emit()
    pc,                     \* the section of emit() that runs next
    run,                    \* number of emit() calls started so far
    hash_seed,              \* ProgramGenerator::hash_seed
    struct_var_mbr_buffer,
    class_var_mbr_buffer,
    class_private_var_mbr_buffer,
    dyn_struct_var_mbr_buffer,
    dyn_class_var_mbr_buffer,
    struct_arr_mbr_buffer,
    class_arr_mbr_buffer,
    dyn_struct_arr_mbr_buffer,
    dyn_class_arr_mbr_buffer,
    need_delete_param_buffer,
    pass_as_param_buffer,
    any_vars_as_params,
    any_arrays_as_params,
    null_stream,            \* what emitExtDecl wrote (the stream is never opened)
    out_file,               \* the emitted text, as a sequence of tokens
    hash_trace,             \* the values hash() received, in call order
    hash_arg,               \* the value the next call of hash() receives
    closed_files            \* the text each completed emit() closed, in call order

vars == <<ext_inp_sym_tbl, ext_out_sym_tbl, options, emit_calls, pc, run,
          hash_seed, struct_var_mbr_buffer, class_var_mbr_buffer,
          class_private_var_mbr_buffer, dyn_struct_var_mbr_buffer,
          dyn_class_var_mbr_buffer, struct_arr_mbr_buffer,
          class_arr_mbr_buffer, dyn_struct_arr_mbr_buffer,
          dyn_class_arr_mbr_buffer, need_delete_param_buffer,
          pass_as_param_buffer, any_vars_as_params, any_arrays_as_params,
          null_stream, out_file, hash_trace, hash_arg, closed_files>>

\* VarKindID and ArrKindID
VarMemberKinds == {"STRUCT_MBR", "CLASS_MBR", "CLASS_PRIVATE_MBR",
                   "DYN_STRUCT_MBR", "DYN_CLASS_MBR"}

ArrMemberKinds == {"STRUCT_MBR", "CLASS_MBR", "DYN_STRUCT_MBR", "DYN_CLASS_MBR"}

VarKinds == {"NORMAL", "PTR"} \cup VarMemberKinds

ArrKinds == {"NORMAL"} \cup ArrMemberKinds

\* PtrTypeID; a scalar that is no pointer carries NONE
PtrTypes == {"RAW", "SHARED", "UNIQUE"}

\* the <<kind, pointer type>> pairs a scalar can carry
VarKindPtr == {<<k, "NONE">> : k \in VarKinds \ {"PTR"}}
                \cup {<<"PTR", p>> : p \in PtrTypes}

CheckAlgos == {"HASH", "ASSERTS", "PRECOMPUTE", "MAX_CHECK_ALGO"}

OptionLevels == {"NONE", "SOME", "ALL"}

AlignmentSizes == {"A16", "A32", "A64"}

\* IRValue::AbsValue{isNegative, value}: sign and magnitude
AbsValue(neg, n) == [is_negative |-> neg, value |-> n]

ScalarVar(name, kind, ptr, dead, mod, init, cur) ==
    [name |-> name, kind |-> kind, ptr_type |-> ptr, is_dead |-> dead,
     decl_mod |-> mod, init_value |-> init, cur_value |-> cur]

\* init_vals / cur_vals hold the main and the alternate value stream; written
\* is the number of leading elements (row-major) the test body assigns, the
\* others keep their initial value at run time
Array(name, kind, dead, dims, axis, init, cur, written) ==
    [name |-> name, kind |-> kind, is_dead |-> dead, dims |-> dims,
     mul_vals_axis_idx |-> axis, init_vals |-> init, cur_vals |-> cur,
     alignment |-> 0, written |-> written]

Vals(main, alt) == [main |-> main, alt |-> alt]

\* Array::getInitValues(bool use_main_vals), Array::getCurrentValues(bool)
getInitValues(array, use_main_vals) ==
    IF use_main_vals THEN array.init_vals.main ELSE array.init_vals.alt

getCurrentValues(array, use_main_vals) ==
    IF use_main_vals THEN array.cur_vals.main ELSE array.cur_vals.alt

\* the constructor's last act: the live, ordinary input scalar "zero"
zero_var == ScalarVar("zero", "NORMAL", "NONE", FALSE, "NONE",
                      AbsValue(FALSE, 0), AbsValue(FALSE, 0))

\* Options: the fields the emission layer reads
DefaultOptions ==
    [check_algo |-> "HASH", allow_dead_data |-> FALSE, inp_as_args |-> "SOME",
     is_cxx |-> TRUE, emit_align_attr |-> "NONE", unique_align_size |-> TRUE,
     align_size |-> "A16", vals_number |-> 2, main_val_idx |-> 0]

RECURSIVE SeqProduct(_)
\* the product of the entries of a sequence of numbers
SeqProduct(s) == IF s = <<>> THEN 1 ELSE Head(s) * SeqProduct(Tail(s))

RECURSIVE TupleOf(_, _)
\* the sequence f[1], ..., f[k]
TupleOf(f, k) == IF k = 0 THEN <<>> ELSE Append(TupleOf(f, k - 1), f[k])

(***************************************************************************)
(* The emitted text is a sequence of tokens: the section that wrote it,    *)
(* what it is, the symbol it names and its numbers (dimensions, literals). *)
(***************************************************************************)
Tok(sec, what, name, arg) ==
    [sec |-> sec, what |-> what, name |-> name, arg |-> arg]

\* ConstantExpr::emit of a value: the signed literal
Lit(v) == IF v.is_negative THEN 0 - v.value ELSE v.value

\* the test `!options.getAllowDeadData() && var->getIsDead()`
SkipDead(sym) == ~options.allow_dead_data /\ sym.is_dead

(***************************************************************************)
(* emitVarExtDecl, emitArrayExtDecl, ProgramGenerator::emitExtDecl.        *)
(* st = [stream, pass_as_param_buffer, any_vars_as_params,                 *)
(* any_arrays_as_params, arrays, aborted]; rnd holds the draws of          *)
(* rand_val_gen, one per symbol.                                           *)
(***************************************************************************)
PassAsParam(inp_category, draw) ==
    IF inp_category
    THEN IF options.inp_as_args = "SOME" THEN draw
         ELSE options.inp_as_args = "ALL"
    ELSE FALSE

RECURSIVE emitVarExtDecl(_, _, _, _, _)
emitVarExtDecl(st, vs, i, inp_category, rnd) ==
    IF i > Len(vs) THEN st
    ELSE LET var == vs[i] IN
         IF SkipDead(var) THEN emitVarExtDecl(st, vs, i + 1, inp_category, rnd)
         ELSE IF PassAsParam(inp_category, rnd.pass[var.name])
         THEN emitVarExtDecl(
                 [st EXCEPT !.pass_as_param_buffer = Append(@, var.name),
                            !.any_vars_as_params = TRUE],
                 vs, i + 1, inp_category, rnd)
         ELSE emitVarExtDecl(
                 [st EXCEPT !.stream =
                      Append(@, Tok("extdecl", "extern", var.name, <<>>))],
                 vs, i + 1, inp_category, rnd)

AlignmentOf(align_size) ==
    CASE align_size = "A16" -> 16
      [] align_size = "A32" -> 32
      [] align_size = "A64" -> 64

RECURSIVE emitArrayExtDecl(_, _, _, _, _)
emitArrayExtDecl(st, arrays, i, inp_category, rnd) ==
    IF i > Len(arrays) \/ st.aborted THEN [st EXCEPT !.arrays = arrays]
    ELSE LET array == arrays[i] IN
         IF SkipDead(array)
         THEN emitArrayExtDecl(st, arrays, i + 1, inp_category, rnd)
         ELSE IF PassAsParam(inp_category, rnd.pass[array.name])
         THEN emitArrayExtDecl(
                 [st EXCEPT !.pass_as_param_buffer = Append(@, array.name),
                            !.any_arrays_as_params = TRUE],
                 arrays, i + 1, inp_category, rnd)
         ELSE
           LET ext == Append(st.stream,
                             Tok("extdecl", "extern", array.name, array.dims))
               emit_align_attr ==
                   /\ options.is_cxx
                   /\ options.emit_align_attr # "NONE"
                   /\ (options.emit_align_attr = "SOME" => rnd.attr[array.name])
               align_size ==
                   IF options.unique_align_size THEN options.align_size
                   ELSE rnd.size[array.name]
           IN  IF ~emit_align_attr
               THEN emitArrayExtDecl([st EXCEPT !.stream = ext],
                                     arrays, i + 1, inp_category, rnd)
               ELSE IF align_size = "MAX_ALIGNMENT_SIZE"
               THEN [st EXCEPT !.stream = ext, !.aborted = TRUE,
                               !.arrays = arrays]
               ELSE emitArrayExtDecl(
                       [st EXCEPT !.stream =
                            Append(ext, Tok("extdecl", "aligned", array.name,
                                            <<AlignmentOf(align_size)>>))],
                       [arrays EXCEPT ![i].alignment = AlignmentOf(align_size)],
                       i + 1, inp_category, rnd)

\* the result has the four streams' text, the passed list and both tables'
\* arrays (setAlignment changes them)
emitExtDecl(rnd) ==
    LET st0 == [stream |-> <<>>,
                pass_as_param_buffer |-> pass_as_param_buffer,
                any_vars_as_params |-> any_vars_as_params,
                any_arrays_as_params |-> any_arrays_as_params,
                arrays |-> <<>>, aborted |-> FALSE]
        st1 == emitVarExtDecl(st0, ext_inp_sym_tbl.vars, 1, TRUE, rnd)
        st2 == emitVarExtDecl(st1, ext_out_sym_tbl.vars, 1, FALSE, rnd)
        st3 == emitArrayExtDecl(st2, ext_inp_sym_tbl.arrays, 1, TRUE, rnd)
        st4 == IF st3.aborted THEN st3
               ELSE emitArrayExtDecl(st3, ext_out_sym_tbl.arrays, 1, FALSE, rnd)
    IN  [st4 EXCEPT !.arrays = [inp |-> st3.arrays,
                                out |-> IF st3.aborted
                                        THEN ext_out_sym_tbl.arrays
                                        ELSE st4.arrays]]

(***************************************************************************)
(* Declarations.  st = [stream, <the nine member buffers>,                 *)
(* need_delete_param_buffer].  The buffers hold shared pointers to the     *)
(* symbols of the tables: here the symbol's name, looked up when read.     *)
(***************************************************************************)
RECURSIVE SeqToSet(_)
SeqToSet(q) == IF q = <<>> THEN {} ELSE {Head(q)} \cup SeqToSet(Tail(q))

\* the ScalarVar / Array a stored shared pointer refers to
VarOf(name) ==
    CHOOSE v \in SeqToSet(ext_inp_sym_tbl.vars \o ext_out_sym_tbl.vars) :
        v.name = name

ArrayOf(name) ==
    CHOOSE a \in SeqToSet(ext_inp_sym_tbl.arrays \o ext_out_sym_tbl.arrays) :
        a.name = name

\* the switch on getDeclMod() of emitVarsDecl
DeclModKeyword(mod) ==
    CASE mod = "STATIC" -> <<Tok("vars", "modifier", "static ", <<>>)>>
      [] mod = "THREAD_LOCAL" -> <<Tok("vars", "modifier", "thread_local ", <<>>)>>
      [] mod = "ALIGNAS_8" -> <<Tok("vars", "modifier", "alignas(8) ", <<>>)>>
      [] mod = "ALIGNAS_16" -> <<Tok("vars", "modifier", "alignas(16) ", <<>>)>>
      [] mod = "CONST" -> <<Tok("vars", "modifier", "const ", <<>>)>>
      [] mod = "CONSTEXPR" -> <<Tok("vars", "modifier", "constexpr ", <<>>)>>
      [] OTHER -> <<>>

\* the switch on getDeclMod() of the four aggregate renderers
MemberModKeyword(sec, mod) ==
    CASE mod = "ALIGNAS_8" -> <<Tok(sec, "modifier", "alignas(8) ", <<>>)>>
      [] mod = "ALIGNAS_16" -> <<Tok(sec, "modifier", "alignas(16) ", <<>>)>>
      [] mod = "MUTABLE" -> <<Tok(sec, "modifier", "mutable ", <<>>)>>
      [] OTHER -> <<>>

\* a classification that also pushes every private member to the public
\* class buffer
emitVarsDeclClassify_PrivateTwice(st, var) ==
    IF var.kind = "CLASS_PRIVATE_MBR"
    THEN [st EXCEPT !.class_private_var_mbr_buffer = Append(@, var.name),
                    !.class_var_mbr_buffer = Append(@, var.name)]
    ELSE st

\* a classification that pushes a scalar only when its buffer does not hold
\* it yet
emitVarsDeclClassify_Once(st, var) ==
    CASE var.kind = "STRUCT_MBR" /\ var.name \notin SeqToSet(st.struct_var_mbr_buffer)
            -> [st EXCEPT !.struct_var_mbr_buffer = Append(@, var.name)]
      [] var.kind = "CLASS_MBR" /\ var.name \notin SeqToSet(st.class_var_mbr_buffer)
            -> [st EXCEPT !.class_var_mbr_buffer = Append(@, var.name)]
      [] var.kind = "CLASS_PRIVATE_MBR"
            /\ var.name \notin SeqToSet(st.class_private_var_mbr_buffer)
            -> [st EXCEPT !.class_private_var_mbr_buffer = Append(@, var.name)]
      [] var.kind = "DYN_STRUCT_MBR"
            /\ var.name \notin SeqToSet(st.dyn_struct_var_mbr_buffer)
            -> [st EXCEPT !.dyn_struct_var_mbr_buffer = Append(@, var.name)]
      [] var.kind = "DYN_CLASS_MBR"
            /\ var.name \notin SeqToSet(st.dyn_class_var_mbr_buffer)
            -> [st EXCEPT !.dyn_class_var_mbr_buffer = Append(@, var.name)]
      [] OTHER -> st

\* the buffer a scalar of an aggregate-member Kind is pushed to
emitVarsDeclClassify(st, var) ==
    LET s1 == IF var.kind = "STRUCT_MBR"
              THEN [st EXCEPT !.struct_var_mbr_buffer = Append(@, var.name)] ELSE st
        s2 == IF var.kind = "CLASS_MBR"
              THEN [s1 EXCEPT !.class_var_mbr_buffer = Append(@, var.name)] ELSE s1
        s3 == IF var.kind = "CLASS_PRIVATE_MBR"
              THEN [s2 EXCEPT !.class_private_var_mbr_buffer = Append(@, var.name)]
              ELSE s2
        s4 == IF var.kind = "DYN_STRUCT_MBR"
              THEN [s3 EXCEPT !.dyn_struct_var_mbr_buffer = Append(@, var.name)]
              ELSE s3
    IN  IF var.kind = "DYN_CLASS_MBR"
        THEN [s4 EXCEPT !.dyn_class_var_mbr_buffer = Append(@, var.name)] ELSE s4

RECURSIVE emitVarsDecl(_, _, _)
emitVarsDecl(st, vs, i) ==
    IF i > Len(vs) THEN st
    ELSE LET var == vs[i] IN
         IF SkipDead(var) THEN emitVarsDecl(st, vs, i + 1)
         ELSE LET sc == emitVarsDeclClassify(st, var) IN
              IF var.kind # "NORMAL" THEN emitVarsDecl(sc, vs, i + 1)
              ELSE emitVarsDecl(
                      [sc EXCEPT !.stream =
                           @ \o DeclModKeyword(var.decl_mod)
                             \o <<Tok("vars", "decl", var.name,
                                      <<Lit(var.init_value)>>)>>],
                      vs, i + 1)

\* the text of one array declarator: dimensions, then the alignment attribute
ArrayDeclarator(sec, what, array) ==
    <<Tok(sec, what, array.name, array.dims)>>
        \o (IF array.alignment # 0
            THEN <<Tok(sec, "aligned", array.name, <<array.alignment>>)>>
            ELSE <<>>)

emitArrayDeclClassify(st, array) ==
    LET s1 == IF array.kind = "STRUCT_MBR"
              THEN [st EXCEPT !.struct_arr_mbr_buffer = Append(@, array.name)] ELSE st
        s2 == IF array.kind = "CLASS_MBR"
              THEN [s1 EXCEPT !.class_arr_mbr_buffer = Append(@, array.name)] ELSE s1
        s3 == IF array.kind = "DYN_STRUCT_MBR"
              THEN [s2 EXCEPT !.dyn_struct_arr_mbr_buffer = Append(@, array.name)]
              ELSE s2
    IN  IF array.kind = "DYN_CLASS_MBR"
        THEN [s3 EXCEPT !.dyn_class_arr_mbr_buffer = Append(@, array.name)] ELSE s3

RECURSIVE emitArrayDecl(_, _, _)
emitArrayDecl(st, arrays, i) ==
    IF i > Len(arrays) THEN st
    ELSE LET array == arrays[i] IN
         IF SkipDead(array) THEN emitArrayDecl(st, arrays, i + 1)
         ELSE LET sc == emitArrayDeclClassify(st, array) IN
              IF array.kind # "NORMAL" THEN emitArrayDecl(sc, arrays, i + 1)
              ELSE emitArrayDecl(
                      [sc EXCEPT !.stream =
                           @ \o ArrayDeclarator("arrays", "decl", array)],
                      arrays, i + 1)

\* the statement emitPtrDecl renders for a pointer of this PtrTypeID
PtrDeclStmt(ptr_type) ==
    CASE ptr_type = "RAW" -> "new"
      [] ptr_type = "SHARED" -> "make_shared"
      [] ptr_type = "UNIQUE" -> "make_unique"

\* emitPtrDecl registering every pointer, whatever its PtrTypeID
NeedsDelete_AnyPointer(var) == var.kind = "PTR"

\* whether emitPtrDecl registers the pointer for delete
NeedsDelete(var) == var.ptr_type = "RAW"

RECURSIVE emitPtrDecl(_, _, _)
emitPtrDecl(st, vs, i) ==
    IF i > Len(vs) THEN st
    ELSE LET var == vs[i] IN
         IF var.kind = "PTR" /\ var.ptr_type \in PtrTypes
         THEN LET s1 == [st EXCEPT !.stream =
                             Append(@, Tok("ptrs", PtrDeclStmt(var.ptr_type),
                                           var.name, <<Lit(var.init_value)>>))]
              IN  emitPtrDecl(
                      IF NeedsDelete(var)
                      THEN [s1 EXCEPT !.need_delete_param_buffer = Append(@, var.name)]
                      ELSE s1,
                      vs, i + 1)
         ELSE emitPtrDecl(st, vs, i + 1)

\* the member declarations every aggregate renderer starts with
RECURSIVE MemberVarDecls(_, _, _)
MemberVarDecls(sec, vs, i) ==
    IF i > Len(vs) THEN <<>>
    ELSE MemberModKeyword(sec, VarOf(vs[i]).decl_mod)
            \o <<Tok(sec, "member", vs[i], <<Lit(VarOf(vs[i]).init_value)>>)>>
            \o MemberVarDecls(sec, vs, i + 1)

RECURSIVE MemberArrayDecls(_, _, _)
MemberArrayDecls(sec, arrays, i) ==
    IF i > Len(arrays) THEN <<>>
    ELSE ArrayDeclarator(sec, "array_member", ArrayOf(arrays[i]))
            \o MemberArrayDecls(sec, arrays, i + 1)

emitStructDecl(vs, arrays) ==
    <<Tok("struct", "open", "GlobalStruct", <<>>)>>
        \o MemberVarDecls("struct", vs, 1)
        \o MemberArrayDecls("struct", arrays, 1)
        \o <<Tok("struct", "instance", "struct_1", <<>>)>>

emitDynamicStructDecl(vs, arrays) ==
    <<Tok("dynstruct", "open", "DynamicStruct", <<>>)>>
        \o MemberVarDecls("dynstruct", vs, 1)
        \o MemberArrayDecls("dynstruct", arrays, 1)
        \o <<Tok("dynstruct", "new_instance", "struct_2", <<>>)>>

RECURSIVE PrivateVarDecls(_, _, _)
PrivateVarDecls(what, vs, i) ==
    IF i > Len(vs) THEN <<>>
    ELSE <<Tok("class", what, vs[i], <<Lit(VarOf(vs[i]).init_value)>>)>>
            \o PrivateVarDecls(what, vs, i + 1)

emitClassDecl(vs, arrays, private_vars) ==
    <<Tok("class", "open", "GlobalClass", <<>>)>>
        \o MemberVarDecls("class", vs, 1)
        \o MemberArrayDecls("class", arrays, 1)
        \o PrivateVarDecls("accessor", private_vars, 1)
        \o PrivateVarDecls("private_member", private_vars, 1)
        \o <<Tok("class", "instance", "object_1", <<>>)>>

\* the loop header per dimension that init, checksum and the DynamicClass
\* constructor render before an element statement
RECURSIVE ForLoops(_, _, _, _)
ForLoops(sec, name, dims, idx) ==
    IF idx >= Len(dims) THEN <<>>
    ELSE <<Tok(sec, "for", name, <<idx, dims[idx + 1]>>)>>
            \o ForLoops(sec, name, dims, idx + 1)

\* the element assignment of emitArrayInit and of the DynamicClass
\* constructor: a ternary on the multi-value axis, or one constant
ElementAssign(sec, array) ==
    ForLoops(sec, array.name, array.dims, 0)
        \o <<Tok(sec, "assign_elem", array.name, <<>>)>>
        \o (IF array.mul_vals_axis_idx # -1
            THEN <<Tok(sec, "select", array.name,
                       <<array.mul_vals_axis_idx, options.vals_number,
                         options.main_val_idx>>)>>
            ELSE <<>>)
        \o <<Tok(sec, "const", array.name, <<Lit(getInitValues(array, TRUE))>>)>>
        \o (IF array.mul_vals_axis_idx # -1
            THEN <<Tok(sec, "else_const", array.name,
                       <<Lit(getInitValues(array, FALSE))>>)>>
            ELSE <<>>)

RECURSIVE CtorAssigns(_, _)
CtorAssigns(vs, i) ==
    IF i > Len(vs) THEN <<>>
    ELSE <<Tok("dynclass", "ctor_assign", vs[i],
               <<Lit(VarOf(vs[i]).init_value)>>)>> \o CtorAssigns(vs, i + 1)

RECURSIVE CtorArrayInits(_, _)
CtorArrayInits(arrays, i) ==
    IF i > Len(arrays) THEN <<>>
    ELSE ElementAssign("dynclass", ArrayOf(arrays[i]))
            \o CtorArrayInits(arrays, i + 1)

emitDynamicClassDecl(vs, arrays) ==
    <<Tok("dynclass", "open", "DynamicClass", <<>>)>>
        \o MemberVarDecls("dynclass", vs, 1)
        \o MemberArrayDecls("dynclass", arrays, 1)
        \o CtorAssigns(vs, 1)
        \o CtorArrayInits(arrays, 1)
        \o <<Tok("dynclass", "new_instance", "object_2", <<>>)>>

\* ProgramGenerator::emitDecl: the buffers after classification and the text
emitDecl ==
    LET st0 == [stream |-> <<>>,
                struct_var_mbr_buffer |-> struct_var_mbr_buffer,
                class_var_mbr_buffer |-> class_var_mbr_buffer,
                class_private_var_mbr_buffer |-> class_private_var_mbr_buffer,
                dyn_struct_var_mbr_buffer |-> dyn_struct_var_mbr_buffer,
                dyn_class_var_mbr_buffer |-> dyn_class_var_mbr_buffer,
                struct_arr_mbr_buffer |-> struct_arr_mbr_buffer,
                class_arr_mbr_buffer |-> class_arr_mbr_buffer,
                dyn_struct_arr_mbr_buffer |-> dyn_struct_arr_mbr_buffer,
                dyn_class_arr_mbr_buffer |-> dyn_class_arr_mbr_buffer,
                need_delete_param_buffer |-> need_delete_param_buffer]
        st1 == emitVarsDecl(st0, ext_inp_sym_tbl.vars, 1)
        st2 == emitVarsDecl(st1, ext_out_sym_tbl.vars, 1)
        st3 == emitPtrDecl(st2, ext_inp_sym_tbl.vars, 1)
        st4 == emitPtrDecl(st3, ext_out_sym_tbl.vars, 1)
        st5 == emitArrayDecl(st4, ext_inp_sym_tbl.arrays, 1)
        st6 == emitArrayDecl(st5, ext_out_sym_tbl.arrays, 1)
    IN  [st6 EXCEPT !.stream =
            @ \o emitStructDecl(st6.struct_var_mbr_buffer,
                                st6.struct_arr_mbr_buffer)
              \o emitDynamicStructDecl(st6.dyn_struct_var_mbr_buffer,
                                       st6.dyn_struct_arr_mbr_buffer)
              \o emitClassDecl(st6.class_var_mbr_buffer,
                               st6.class_arr_mbr_buffer,
                               st6.class_private_var_mbr_buffer)
              \o emitDynamicClassDecl(st6.dyn_class_var_mbr_buffer,
                                      st6.dyn_class_arr_mbr_buffer)]

(***************************************************************************)
(* ProgramGenerator::emitCheckFunc and ProgramGenerator::emitInit.         *)
(***************************************************************************)
emitCheckFunc ==
    <<Tok("checkfunc", "include", "stdio.h", <<>>)>>
        \o (IF options.check_algo = "ASSERTS"
            THEN <<Tok("checkfunc", "decl", "value_mismatch", <<0>>)>>
            ELSE <<>>)
        \o <<Tok("checkfunc", "decl", "seed", <<0>>),
             Tok("checkfunc", "define", "hash", <<>>)>>

RECURSIVE emitArrayInit(_, _)
emitArrayInit(arrays, i) ==
    IF i > Len(arrays) THEN <<>>
    ELSE LET array == arrays[i] IN
         IF array.kind = "DYN_CLASS_MBR" THEN emitArrayInit(arrays, i + 1)
         ELSE IF SkipDead(array) THEN emitArrayInit(arrays, i + 1)
         ELSE ElementAssign("init", array) \o emitArrayInit(arrays, i + 1)

\* the loop leaves at the first DYN_CLASS_MBR entry (break)
RECURSIVE emitVarMemberInit(_, _)
emitVarMemberInit(vs, i) ==
    IF i > Len(vs) THEN <<>>
    ELSE LET var == VarOf(vs[i]) IN
         IF var.kind = "DYN_CLASS_MBR" THEN <<>>
         ELSE <<Tok("init", "assign", var.name, <<Lit(var.init_value)>>)>>
                 \o emitVarMemberInit(vs, i + 1)

emitInit ==
    <<Tok("init", "open", "init", <<>>)>>
        \o emitArrayInit(ext_inp_sym_tbl.arrays, 1)
        \o emitArrayInit(ext_out_sym_tbl.arrays, 1)
        \o emitVarMemberInit(struct_var_mbr_buffer, 1)
        \o emitVarMemberInit(dyn_struct_var_mbr_buffer, 1)
        \o emitVarMemberInit(class_var_mbr_buffer, 1)
        \o emitVarMemberInit(dyn_class_var_mbr_buffer, 1)

(***************************************************************************)
(* The generation-time checksum walk.  hs = [seed, trace] is hash_seed     *)
(* and the values hash() has received.                                     *)
(***************************************************************************)
HashCall(hs, v) ==
    CHOOSE r \in {[seed |-> hash(h.seed, v), trace |-> Append(h.trace, v)] :
                     h \in {hs}} : TRUE

\* std::vector<size_t> steps = {} of hashArray
steps == <<>>

\* size_t cur_val_size = 0 of hashArrayStep
cur_val_size == 0

\* steps[cur_idx]: operator[] does not check the index, a read past the end
\* yields whatever the memory holds (garbage)
StepsAt(cur_idx, garbage) ==
    IF cur_idx + 1 <= Len(steps) THEN steps[cur_idx + 1] ELSE garbage

\* whether hashArray's walk of these dimensions reads steps out of bounds
StepsReadOutOfBounds(dims) == Len(dims) > Len(steps)

RECURSIVE hashArrayStep(_, _, _, _, _, _, _)
RECURSIVE hashArrayIter(_, _, _, _, _, _, _, _)
\* iteration i of the for loop of hashArrayStep
hashArrayIter(dims, cur_idx, i, has_to_use_init_val, init_val, cur_val, garbage, hs) ==
    LET vec_last_idx == Len(dims) - 1
        cur_dim == dims[cur_idx + 1]
        cur_step == StepsAt(cur_idx, garbage)
    IN  IF i >= cur_dim THEN hs
        ELSE LET flag == has_to_use_init_val \/ (i >= cur_val_size)
                 use_init == flag \/ (i % cur_step # 0)
             IN  hashArrayIter(dims, cur_idx, i + 1, flag, init_val, cur_val,
                     garbage,
                     IF cur_idx # vec_last_idx
                     THEN hashArrayStep(dims, cur_idx + 1, use_init, init_val,
                                        cur_val, garbage, hs)
                     ELSE HashCall(hs, IF use_init THEN init_val ELSE cur_val))

hashArrayStep(dims, cur_idx, has_to_use_init_val, init_val, cur_val, garbage, hs) ==
    hashArrayIter(dims, cur_idx, 0, has_to_use_init_val, init_val, cur_val,
                  garbage, hs)

\* size_t main_val_idx converted to the bool parameter use_main_vals
AsBool(n) == n # 0

\* a walk that mixes the current value of every element
hashArray_CurrentValues(arr, garbage, hs) ==
    LET cur_val ==
            NatW(getCurrentValues(arr, AsBool(options.main_val_idx)).value)
    IN  hashArrayStep(arr.dims, 0, FALSE, cur_val, cur_val, garbage, hs)

hashArray(arr, garbage, hs) ==
    LET init_val ==
            NatW(getInitValues(arr, AsBool(options.main_val_idx)).value)
        cur_val ==
            NatW(getCurrentValues(arr, AsBool(options.main_val_idx)).value)
    IN  hashArrayStep(arr.dims, 0, FALSE, init_val, cur_val, garbage, hs)

(***************************************************************************)
(* ProgramGenerator::emitCheck.  st = [stream, hs, aborted]; aborted is    *)
(* ERROR("Unsupported").                                                   *)
(***************************************************************************)
IsHashAlgo == options.check_algo \in {"HASH", "PRECOMPUTE"}

\* the scalar loop leaves at the first DYN_CLASS_MBR scalar (break)
RECURSIVE emitCheckVars(_, _, _)
emitCheckVars(st, vs, i) ==
    IF i > Len(vs) THEN st
    ELSE LET var == vs[i] IN
         IF var.kind = "DYN_CLASS_MBR" THEN st
         ELSE IF IsHashAlgo
         THEN emitCheckVars(
                 [st EXCEPT
                    !.stream = Append(@, Tok("checksum", "hash", var.name, <<>>)),
                    !.hs = IF options.check_algo = "PRECOMPUTE"
                           THEN HashCall(@, NatW(var.cur_value.value))
                           ELSE @],
                 vs, i + 1)
         ELSE IF options.check_algo = "ASSERTS"
         THEN emitCheckVars(
                 [st EXCEPT !.stream =
                      Append(@, Tok("checksum", "assert", var.name,
                                    <<Lit(var.cur_value)>>))],
                 vs, i + 1)
         ELSE [st EXCEPT !.aborted = TRUE]

\* a comparison against the current values only
AssertLiterals_CurrentOnly(array) ==
    <<Lit(getCurrentValues(array, TRUE))>>
        \o (IF array.mul_vals_axis_idx # -1
            THEN <<Lit(getCurrentValues(array, FALSE))>>
            ELSE <<>>)

\* the literals an array element is compared with in ASSERTS mode
AssertLiterals(array) ==
    <<Lit(getCurrentValues(array, TRUE)), Lit(getInitValues(array, TRUE))>>
        \o (IF array.mul_vals_axis_idx # -1
            THEN <<Lit(getCurrentValues(array, FALSE)),
                   Lit(getInitValues(array, FALSE))>>
            ELSE <<>>)

RECURSIVE emitCheckArrays(_, _, _, _)
emitCheckArrays(st, arrays, i, garbage) ==
    IF i > Len(arrays) THEN st
    ELSE LET array == arrays[i]
             loops == st.stream
                        \o ForLoops("checksum", array.name, array.dims, 0)
         IN
         IF array.kind = "DYN_CLASS_MBR"
         THEN emitCheckArrays(st, arrays, i + 1, garbage)
         ELSE IF IsHashAlgo
         THEN emitCheckArrays(
                 [st EXCEPT
                    !.stream = Append(loops, Tok("checksum", "hash_elem",
                                                 array.name, <<>>)),
                    !.hs = IF options.check_algo = "PRECOMPUTE"
                           THEN hashArray(array, garbage, @)
                           ELSE @],
                 arrays, i + 1, garbage)
         ELSE IF options.check_algo = "ASSERTS"
         THEN emitCheckArrays(
                 [st EXCEPT !.stream =
                      Append(loops, Tok("checksum", "assert_elem", array.name,
                                        AssertLiterals(array)))],
                 arrays, i + 1, garbage)
         ELSE [st EXCEPT !.stream = loops, !.aborted = TRUE]

emitCheck(garbage) ==
    LET st0 == [stream |-> <<Tok("checksum", "open", "checksum", <<>>)>>,
                hs |-> [seed |-> hash_seed, trace |-> hash_trace],
                aborted |-> FALSE]
        st1 == emitCheckVars(st0, ext_out_sym_tbl.vars, 1)
    IN  IF st1.aborted THEN st1
        ELSE emitCheckArrays(st1, ext_out_sym_tbl.arrays, 1, garbage)

\* whether emitCheck calls hashArray on an array whose walk reads steps out
\* of bounds
emitCheckReadsOutOfBounds ==
    /\ options.check_algo = "PRECOMPUTE"
    /\ \E i \in 1..Len(ext_out_sym_tbl.arrays) :
          /\ ext_out_sym_tbl.arrays[i].kind # "DYN_CLASS_MBR"
          /\ StepsReadOutOfBounds(ext_out_sym_tbl.arrays[i].dims)

(***************************************************************************)
(* The parameter list of test(): emitVarFuncParam (signature),             *)
(* emitVarFuncParamInMain (call site), emitArrayFuncParam (both).          *)
(* st = [stream, emit_any]; sec is the section whose text this is.         *)
(***************************************************************************)
placeSep(sec, cond) == IF cond THEN <<Tok(sec, "sep", ", ", <<>>)>> ELSE <<>>

InPassBuffer(name) ==
    \E k \in 1..Len(pass_as_param_buffer) : pass_as_param_buffer[k] = name

\* the signature's text for one scalar parameter
SignatureForm(var) ==
    CASE var.ptr_type = "SHARED" -> "shared_ptr_param"
      [] var.ptr_type = "UNIQUE" -> "unique_ptr_param"
      [] OTHER -> "param"

\* the call site's text for one scalar argument
ArgumentForm(var) ==
    IF var.kind = "PTR" /\ var.ptr_type = "UNIQUE" THEN "move_arg" ELSE "arg"

\* emitVarFuncParam's loop without its test of pass_as_param_buffer
SignatureSkips_NoBufferTest(var) ==
    \/ SkipDead(var)
    \/ var.kind \in VarMemberKinds

\* the three `continue` tests of emitVarFuncParam's loop
SignatureSkips(var) ==
    \/ SkipDead(var)
    \/ ~InPassBuffer(var.name)
    \/ var.kind \in VarMemberKinds

RECURSIVE emitVarFuncParamLoop(_, _, _, _)
emitVarFuncParamLoop(st, vs, i, emit_type) ==
    IF i > Len(vs) THEN st
    ELSE LET var == vs[i] IN
         IF SignatureSkips(var)
         THEN emitVarFuncParamLoop(st, vs, i + 1, emit_type)
         ELSE emitVarFuncParamLoop(
                 [stream |-> st.stream \o placeSep("test", st.emit_any)
                        \o (IF emit_type
                            THEN <<Tok("test", SignatureForm(var), var.name, <<>>)>>
                            ELSE <<>>),
                  emit_any |-> TRUE],
                 vs, i + 1, emit_type)

\* emitVarFuncParam with the aggregates rendered before the scalars
emitVarFuncParam_AggregatesFirst(vs, emit_type) ==
    LET st == emitVarFuncParamLoop([stream |-> <<>>, emit_any |-> FALSE],
                                   vs, 1, emit_type)
    IN  [st EXCEPT !.stream =
            <<Tok("test", "param", "struct_1", <<>>),
              Tok("test", "sep", ", ", <<>>),
              Tok("test", "param", "struct_2", <<>>),
              Tok("test", "sep", ", ", <<>>),
              Tok("test", "param", "object_1", <<>>),
              Tok("test", "sep", ", ", <<>>),
              Tok("test", "param", "object_2", <<>>)>>
                \o placeSep("test", st.emit_any) \o @]

emitVarFuncParam(vs, emit_type) ==
    LET st == emitVarFuncParamLoop([stream |-> <<>>, emit_any |-> FALSE],
                                   vs, 1, emit_type)
    IN  [st EXCEPT !.stream =
            @ \o <<Tok("test", "sep", ", ", <<>>),
                   Tok("test", "param", "struct_1", <<>>),
                   Tok("test", "sep", ", ", <<>>),
                   Tok("test", "param", "struct_2", <<>>),
                   Tok("test", "sep", ", ", <<>>),
                   Tok("test", "param", "object_1", <<>>),
                   Tok("test", "sep", ", ", <<>>),
                   Tok("test", "param", "object_2", <<>>)>>]

\* emitVarFuncParamInMain's loop without its test of the member Kinds
CallSiteSkips_NoMemberTest(var) ==
    \/ SkipDead(var)
    \/ ~InPassBuffer(var.name)

\* the three `continue` tests of emitVarFuncParamInMain's loop
CallSiteSkips(var) ==
    \/ SkipDead(var)
    \/ ~InPassBuffer(var.name)
    \/ var.kind \in VarMemberKinds

RECURSIVE emitVarFuncParamInMainLoop(_, _, _, _)
emitVarFuncParamInMainLoop(st, vs, i, emit_type) ==
    IF i > Len(vs) THEN st
    ELSE LET var == vs[i] IN
         IF CallSiteSkips(var)
         THEN emitVarFuncParamInMainLoop(st, vs, i + 1, emit_type)
         ELSE emitVarFuncParamInMainLoop(
                 [stream |-> st.stream \o placeSep("main", st.emit_any)
                        \o (IF emit_type
                            THEN <<Tok("main", "type", var.name, <<>>)>>
                            ELSE <<>>)
                        \o <<Tok("main", ArgumentForm(var), var.name, <<>>)>>,
                  emit_any |-> TRUE],
                 vs, i + 1, emit_type)

emitVarFuncParamInMain(vs, emit_type) ==
    LET st == emitVarFuncParamInMainLoop([stream |-> <<>>, emit_any |-> FALSE],
                                         vs, 1, emit_type)
    IN  [st EXCEPT !.stream =
            @ \o <<Tok("main", "sep", ", ", <<>>),
                   Tok("main", "arg", "struct_1", <<>>),
                   Tok("main", "sep", ", ", <<>>),
                   Tok("main", "arg", "struct_2", <<>>),
                   Tok("main", "sep", ", ", <<>>),
                   Tok("main", "arg", "object_1", <<>>),
                   Tok("main", "sep", ", ", <<>>),
                   Tok("main", "arg", "object_2", <<>>)>>]

\* the three `continue` tests of emitArrayFuncParam's loop
ArrayParamSkips(array) ==
    \/ SkipDead(array)
    \/ ~InPassBuffer(array.name)
    \/ array.kind \in ArrMemberKinds

\* what == "param" in the signature, "arg" at the call site
RECURSIVE emitArrayFuncParam(_, _, _, _, _, _, _)
emitArrayFuncParam(sec, what, prev_category_exist, arrays, i, first, emit_dims) ==
    IF i > Len(arrays) THEN <<>>
    ELSE LET array == arrays[i]
             next(f) == emitArrayFuncParam(sec, what, prev_category_exist,
                                           arrays, i + 1, f, emit_dims)
         IN
         IF ArrayParamSkips(array) THEN next(first)
         ELSE placeSep(sec, prev_category_exist \/ ~first)
                \o <<Tok(sec, what, array.name,
                         IF emit_dims THEN array.dims ELSE <<>>)>>
                \o next(FALSE)

\* ProgramGenerator::emitTest
emitTest ==
    LET p == emitVarFuncParam(ext_inp_sym_tbl.vars, TRUE) IN
    <<Tok("test", "open", "test", <<>>)>>
        \o p.stream
        \o emitArrayFuncParam("test", "param", p.emit_any,
                              ext_inp_sym_tbl.arrays, 1, TRUE, TRUE)
        \o <<Tok("test", "close", "test", <<>>),
             Tok("test", "body", "test", <<>>)>>

(***************************************************************************)
(* emitDeleteStmt, ProgramGenerator::emitRelease, ProgramGenerator::emitMain *)
(***************************************************************************)
RECURSIVE emitDeleteStmt(_, _)
emitDeleteStmt(vs, i) ==
    IF i > Len(vs) THEN <<>>
    ELSE <<Tok("release", "delete", vs[i], <<>>)>> \o emitDeleteStmt(vs, i + 1)

emitRelease ==
    <<Tok("release", "open", "Release", <<>>)>>
        \o emitDeleteStmt(need_delete_param_buffer, 1)
        \o <<Tok("release", "delete", "struct_2", <<>>),
             Tok("release", "delete", "object_2", <<>>)>>

\* emitMain with the call of Release rendered before the call of checksum
emitMain_ReleaseFirst ==
    LET p == emitVarFuncParamInMain(ext_inp_sym_tbl.vars, FALSE) IN
    <<Tok("main", "call", "init", <<>>),
      Tok("main", "open", "test", <<>>)>>
        \o p.stream
        \o emitArrayFuncParam("main", "arg", p.emit_any,
                              ext_inp_sym_tbl.arrays, 1, TRUE, FALSE)
        \o <<Tok("main", "close", "test", <<>>),
             Tok("main", "call", "Release", <<>>),
             Tok("main", "call", "checksum", <<>>),
             Tok("main", "print", "seed", <<>>)>>
        \o (IF options.check_algo = "PRECOMPUTE"
            THEN <<Tok("main", "expect", "seed", hash_seed)>> ELSE <<>>)
        \o (IF options.check_algo = "ASSERTS"
            THEN <<Tok("main", "expect", "value_mismatch", <<0>>)>> ELSE <<>>)

emitMain ==
    LET p == emitVarFuncParamInMain(ext_inp_sym_tbl.vars, FALSE) IN
    <<Tok("main", "call", "init", <<>>),
      Tok("main", "open", "test", <<>>)>>
        \o p.stream
        \o emitArrayFuncParam("main", "arg", p.emit_any,
                              ext_inp_sym_tbl.arrays, 1, TRUE, FALSE)
        \o <<Tok("main", "close", "test", <<>>),
             Tok("main", "call", "checksum", <<>>),
             Tok("main", "call", "Release", <<>>),
             Tok("main", "print", "seed", <<>>)>>
        \o (IF options.check_algo = "PRECOMPUTE"
            THEN <<Tok("main", "expect", "seed", hash_seed)>> ELSE <<>>)
        \o (IF options.check_algo = "ASSERTS"
            THEN <<Tok("main", "expect", "value_mismatch", <<0>>)>> ELSE <<>>)

(***************************************************************************)
(* Bounds and the symbol tables the generation policy may hand over.       *)
(***************************************************************************)
MaxInpVars == 1
MaxOutVars == 1
MaxArrs == 1
MaxRank == 2
MaxDim == 2
MaxRuns == 2
MaxGarbage == 1
MaxHashCalls == 2

InpVarNames == <<"var_1", "var_2", "var_3">>
OutVarNames == <<"var_4", "var_5", "var_6">>
InpArrNames == <<"arr_1", "arr_2", "arr_3">>
OutArrNames == <<"arr_4", "arr_5", "arr_6">>

\* a scalar of every Kind, pointer type and dead flag
VarVariants(name) ==
    {ScalarVar(name, kp[1], kp[2], d, "NONE", AbsValue(FALSE, 1), AbsValue(FALSE, 1)) :
        kp \in VarKindPtr, d \in BOOLEAN}

\* a one-dimensional array of every Kind and dead flag
ArrVariants(name) ==
    {Array(name, k, d, <<2>>, -1, Vals(AbsValue(FALSE, 1), AbsValue(FALSE, 2)),
           Vals(AbsValue(FALSE, 3), AbsValue(FALSE, 4)), 2) :
        k \in ArrKinds, d \in BOOLEAN}

RECURSIVE VarSeqs(_, _)
\* the tables of exactly k scalars named names[1..k]
VarSeqs(names, k) ==
    IF k = 0 THEN {<<>>}
    ELSE {Append(q, x) : q \in VarSeqs(names, k - 1), x \in VarVariants(names[k])}

RECURSIVE ArrSeqs(_, _)
ArrSeqs(names, k) ==
    IF k = 0 THEN {<<>>}
    ELSE {Append(q, x) : q \in ArrSeqs(names, k - 1), x \in ArrVariants(names[k])}

VarTables(names, n) == UNION {VarSeqs(names, k) : k \in 0..n}

ArrTables(names, n) == UNION {ArrSeqs(names, k) : k \in 0..n}

RECURSIVE Shapes(_)
\* the dimension lists of rank r with every extent in 1..MaxDim
Shapes(r) ==
    IF r = 0 THEN {<<>>}
    ELSE {Append(q, d) : q \in Shapes(r - 1), d \in 1..MaxDim}

\* live ordinary arrays of every shape, multi-value axis and written extent
ShapedArrays(name) ==
    UNION {
        {Array(name, "NORMAL", FALSE, dims, axis,
               Vals(AbsValue(FALSE, 1), AbsValue(FALSE, 2)),
               Vals(AbsValue(FALSE, 3), AbsValue(FALSE, 4)), w) :
            axis \in -1..(Len(dims) - 1), w \in {0, 1, SeqProduct(dims)}} :
        dims \in UNION {Shapes(r) : r \in 1..MaxRank}}

LiveVar(name, kind, ptr, cur) ==
    ScalarVar(name, kind, ptr, FALSE, "NONE", AbsValue(FALSE, 1), cur)

LiveArr(name, kind) ==
    Array(name, kind, FALSE, <<2>>, -1,
          Vals(AbsValue(FALSE, 1), AbsValue(FALSE, 2)),
          Vals(AbsValue(FALSE, 3), AbsValue(FALSE, 4)), 2)

Table(vs, arrays) == [vars |-> vs, arrays |-> arrays]

\* the state ProgramGenerator's constructor and the static initialisers leave
InitGenerator ==
    /\ pc = "idle"
    /\ run = 0
    /\ hash_seed = ZeroW
    /\ hash_trace = <<>>
    /\ hash_arg = ZeroW
    /\ struct_var_mbr_buffer = <<>>
    /\ class_var_mbr_buffer = <<>>
    /\ class_private_var_mbr_buffer = <<>>
    /\ dyn_struct_var_mbr_buffer = <<>>
    /\ dyn_class_var_mbr_buffer = <<>>
    /\ struct_arr_mbr_buffer = <<>>
    /\ class_arr_mbr_buffer = <<>>
    /\ dyn_struct_arr_mbr_buffer = <<>>
    /\ dyn_class_arr_mbr_buffer = <<>>
    /\ need_delete_param_buffer = <<>>
    /\ pass_as_param_buffer = <<>>
    /\ any_vars_as_params = FALSE
    /\ any_arrays_as_params = FALSE
    /\ null_stream = <<>>
    /\ out_file = <<>>
    /\ closed_files = <<>>

\* input scalars of every Kind, one ordinary input array
InitInputScalars ==
    /\ \E q \in VarTables(InpVarNames, MaxInpVars) :
          ext_inp_sym_tbl = Table(Append(q, zero_var),
                                  <<LiveArr("arr_1", "NORMAL")>>)
    /\ ext_out_sym_tbl =
          Table(<<LiveVar("var_4", "NORMAL", "NONE", AbsValue(FALSE, 5))>>, <<>>)
    /\ \E d \in BOOLEAN, a \in OptionLevels :
          options = [DefaultOptions EXCEPT !.allow_dead_data = d,
                                           !.inp_as_args = a]
    /\ emit_calls = 1

\* input arrays of every Kind
InitInputArrays ==
    /\ \E q \in ArrTables(InpArrNames, MaxArrs) :
          ext_inp_sym_tbl = Table(<<zero_var>>, q)
    /\ ext_out_sym_tbl = Table(<<>>, <<>>)
    /\ \E d \in BOOLEAN, a \in OptionLevels :
          options = [DefaultOptions EXCEPT !.allow_dead_data = d,
                                           !.inp_as_args = a]
    /\ emit_calls = 1

\* output arrays of every Kind, under every checksum algorithm
InitOutputArrays ==
    /\ ext_inp_sym_tbl = Table(<<zero_var>>, <<>>)
    /\ \E q \in ArrTables(OutArrNames, MaxArrs) :
          ext_out_sym_tbl = Table(<<>>, q)
    /\ \E d \in BOOLEAN, c \in CheckAlgos :
          options = [DefaultOptions EXCEPT !.allow_dead_data = d,
                                           !.check_algo = c,
                                           !.inp_as_args = "ALL"]
    /\ emit_calls = 1

\* output scalars of every Kind, with or without a live ordinary scalar
\* after them, under every checksum algorithm
InitOutputScalars ==
    /\ ext_inp_sym_tbl = Table(<<zero_var>>, <<>>)
    /\ \E q \in VarTables(OutVarNames, MaxOutVars),
          last \in {<<>>, <<LiveVar("var_9", "NORMAL", "NONE", AbsValue(FALSE, 5))>>} :
          ext_out_sym_tbl = Table(q \o last, <<>>)
    /\ \E d \in BOOLEAN, c \in CheckAlgos :
          options = [DefaultOptions EXCEPT !.allow_dead_data = d,
                                           !.check_algo = c,
                                           !.inp_as_args = "ALL"]
    /\ emit_calls = 1

\* Precompute mode on one output array of every shape, multi-value axis and
\* written extent, alone or after a scalar whose final value is -1
InitOutputValues ==
    /\ ext_inp_sym_tbl = Table(<<zero_var>>, <<>>)
    /\ \E a \in ShapedArrays("arr_4"),
          q \in {<<>>,
                 <<LiveVar("var_4", "NORMAL", "NONE", AbsValue(TRUE, 1))>>} :
          ext_out_sym_tbl = Table(q, <<a>>)
    /\ \E n \in {2, 3} :
          \E m \in 0..(n - 1) :
             options = [DefaultOptions EXCEPT !.check_algo = "PRECOMPUTE",
                                              !.inp_as_args = "NONE",
                                              !.vals_number = n,
                                              !.main_val_idx = m]
    /\ emit_calls = 1

\* Asserts mode on one output array of every shape, multi-value axis and
\* written extent, alone or after a scalar whose final value is -1
InitOutputAsserts ==
    /\ ext_inp_sym_tbl = Table(<<zero_var>>, <<>>)
    /\ \E a \in ShapedArrays("arr_4"),
          q \in {<<>>,
                 <<LiveVar("var_4", "NORMAL", "NONE", AbsValue(TRUE, 1))>>} :
          ext_out_sym_tbl = Table(q, <<a>>)
    /\ options = [DefaultOptions EXCEPT !.check_algo = "ASSERTS",
                                        !.inp_as_args = "NONE"]
    /\ emit_calls = 1

\* a driver that calls emit() more than once on the same generator
InitReruns ==
    /\ ext_inp_sym_tbl =
          Table(<<LiveVar("var_1", "PTR", "RAW", AbsValue(FALSE, 1)), zero_var>>,
                <<>>)
    /\ ext_out_sym_tbl =
          Table(<<LiveVar("var_4", "STRUCT_MBR", "NONE", AbsValue(FALSE, 5))>>,
                <<LiveArr("arr_4", "CLASS_MBR")>>)
    /\ \E c \in {"ASSERTS", "PRECOMPUTE"}, a \in {"SOME", "ALL"} :
          options = [DefaultOptions EXCEPT !.allow_dead_data = TRUE,
                                           !.check_algo = c,
                                           !.inp_as_args = a]
    /\ emit_calls \in 2..MaxRuns

\* a driver that calls emit() more than once on ordinary symbols only, under
\* every checksum algorithm, with and without draws for passing and alignment
InitRerunsOrdinary ==
    /\ ext_inp_sym_tbl = Table(<<zero_var>>, <<>>)
    /\ ext_out_sym_tbl =
          Table(<<LiveVar("var_4", "NORMAL", "NONE", AbsValue(FALSE, 5))>>,
                <<LiveArr("arr_4", "NORMAL")>>)
    /\ \E c \in {"HASH", "ASSERTS", "PRECOMPUTE"}, a \in {"NONE", "SOME"},
          attr \in {"NONE", "SOME"} :
          options = [DefaultOptions EXCEPT !.check_algo = c,
                                           !.inp_as_args = a,
                                           !.emit_align_attr = attr]
    /\ emit_calls \in 2..MaxRuns

\* a pointer of every type in each table, live or dead
InitPointers ==
    /\ \E p1, p4 \in PtrTypes, d1, d4 \in BOOLEAN :
          /\ ext_inp_sym_tbl =
                Table(<<ScalarVar("var_1", "PTR", p1, d1, "NONE",
                                  AbsValue(FALSE, 1), AbsValue(FALSE, 1)),
                        zero_var>>, <<>>)
          /\ ext_out_sym_tbl =
                Table(<<ScalarVar("var_4", "PTR", p4, d4, "NONE",
                                  AbsValue(FALSE, 1), AbsValue(FALSE, 5))>>, <<>>)
    /\ \E d \in BOOLEAN :
          options = [DefaultOptions EXCEPT !.allow_dead_data = d,
                                           !.inp_as_args = "ALL"]
    /\ emit_calls = 1

\* every alignment policy, on ordinary arrays
InitAlignment ==
    /\ ext_inp_sym_tbl = Table(<<zero_var>>, <<LiveArr("arr_1", "NORMAL")>>)
    /\ ext_out_sym_tbl = Table(<<>>, <<LiveArr("arr_4", "NORMAL")>>)
    /\ \E attr \in OptionLevels, u \in BOOLEAN, cxx \in BOOLEAN,
          sz \in AlignmentSizes \cup {"MAX_ALIGNMENT_SIZE"} :
          options = [DefaultOptions EXCEPT !.inp_as_args = "NONE",
                                           !.is_cxx = cxx,
                                           !.emit_align_attr = attr,
                                           !.unique_align_size = u,
                                           !.align_size = sz]
    /\ emit_calls = 1

Init ==
    /\ InitGenerator
    /\ \/ InitInputScalars
       \/ InitInputArrays
       \/ InitOutputArrays
       \/ InitOutputScalars
       \/ InitOutputValues
       \/ InitOutputAsserts
       \/ InitReruns
       \/ InitRerunsOrdinary
       \/ InitPointers
       \/ InitAlignment

(***************************************************************************)
(* ProgramGenerator::emit, one action per section it runs.                 *)
(***************************************************************************)
buffers == <<struct_var_mbr_buffer, class_var_mbr_buffer,
             class_private_var_mbr_buffer, dyn_struct_var_mbr_buffer,
             dyn_class_var_mbr_buffer, struct_arr_mbr_buffer,
             class_arr_mbr_buffer, dyn_struct_arr_mbr_buffer,
             dyn_class_arr_mbr_buffer, need_delete_param_buffer>>

passed == <<pass_as_param_buffer, any_vars_as_params, any_arrays_as_params>>

tables == <<ext_inp_sym_tbl, ext_out_sym_tbl>>

hashing == <<hash_seed, hash_trace, hash_arg>>

\* the names of the input symbols, whose passing the policy SOME draws
InpNames ==
    {ext_inp_sym_tbl.vars[i].name : i \in 1..Len(ext_inp_sym_tbl.vars)}
        \cup {ext_inp_sym_tbl.arrays[i].name : i \in 1..Len(ext_inp_sym_tbl.arrays)}

ArrNames ==
    {ext_inp_sym_tbl.arrays[i].name : i \in 1..Len(ext_inp_sym_tbl.arrays)}
        \cup {ext_out_sym_tbl.arrays[i].name : i \in 1..Len(ext_out_sym_tbl.arrays)}

\* the draws emitExtDecl may take from rand_val_gen; a draw the options
\* never consult is fixed
Draws ==
    [pass : IF options.inp_as_args = "SOME" THEN [InpNames -> BOOLEAN]
            ELSE {[n \in InpNames |-> FALSE]},
     attr : IF options.is_cxx /\ options.emit_align_attr = "SOME"
            THEN [ArrNames -> BOOLEAN] ELSE {[n \in ArrNames |-> TRUE]},
     size : IF options.is_cxx /\ options.emit_align_attr # "NONE"
               /\ ~options.unique_align_size
            THEN [ArrNames -> AlignmentSizes]
            ELSE {[n \in ArrNames |-> "A16"]}]

\* emit() is entered: the alignment size is narrowed when it was left open
EmitBegin ==
    /\ pc \in {"idle", "done"}
    /\ run < emit_calls
    /\ run' = run + 1
    /\ \E align_size \in AlignmentSizes :
          options' =
             IF options.unique_align_size
                /\ options.align_size = "MAX_ALIGNMENT_SIZE"
             THEN [options EXCEPT !.align_size = align_size]
             ELSE options
    /\ null_stream' = <<>>
    /\ pc' = "emitExtDecl"
    /\ UNCHANGED <<tables, emit_calls, closed_files, hashing, buffers, passed, out_file>>

EmitExtDecl ==
    /\ pc = "emitExtDecl"
    /\ \E rnd \in Draws :
          LET r == emitExtDecl(rnd) IN
          /\ null_stream' = r.stream
          /\ pass_as_param_buffer' = r.pass_as_param_buffer
          /\ any_vars_as_params' = r.any_vars_as_params
          /\ any_arrays_as_params' = r.any_arrays_as_params
          /\ ext_inp_sym_tbl' = [ext_inp_sym_tbl EXCEPT !.arrays = r.arrays.inp]
          /\ ext_out_sym_tbl' = [ext_out_sym_tbl EXCEPT !.arrays = r.arrays.out]
          /\ pc' = IF r.aborted THEN "aborted" ELSE "open"
    /\ UNCHANGED <<options, emit_calls, closed_files, run, hashing, buffers, out_file>>

\* out_file.open(out_dir): the file is truncated and the header written, or
\* the open fails and ERROR("Can't open file") ends the run
OpenOutFile ==
    /\ pc = "open"
    /\ \/ /\ out_file' = <<Tok("header", "options", "dump", <<>>)>>
          /\ pc' = "emitCheckFunc"
       \/ /\ out_file' = out_file
          /\ pc' = "aborted"
    /\ UNCHANGED <<tables, options, emit_calls, closed_files, run, hashing, buffers, passed,
                   null_stream>>

\* an emit() that renders init before the declarations
EmitCheckFunc_InitBeforeDecl ==
    /\ pc = "emitCheckFunc"
    /\ out_file' = out_file \o emitCheckFunc \o emitInit
    /\ pc' = "emitCheck"
    /\ UNCHANGED <<tables, options, emit_calls, closed_files, run, hashing, buffers, passed,
                   null_stream>>

EmitCheckFunc ==
    /\ pc = "emitCheckFunc"
    /\ out_file' = out_file \o emitCheckFunc
    /\ pc' = "emitDecl"
    /\ UNCHANGED <<tables, options, emit_calls, closed_files, run, hashing, buffers, passed,
                   null_stream>>

EmitDecl ==
    /\ pc = "emitDecl"
    /\ LET r == emitDecl IN
       /\ out_file' = out_file \o r.stream
       /\ struct_var_mbr_buffer' = r.struct_var_mbr_buffer
       /\ class_var_mbr_buffer' = r.class_var_mbr_buffer
       /\ class_private_var_mbr_buffer' = r.class_private_var_mbr_buffer
       /\ dyn_struct_var_mbr_buffer' = r.dyn_struct_var_mbr_buffer
       /\ dyn_class_var_mbr_buffer' = r.dyn_class_var_mbr_buffer
       /\ struct_arr_mbr_buffer' = r.struct_arr_mbr_buffer
       /\ class_arr_mbr_buffer' = r.class_arr_mbr_buffer
       /\ dyn_struct_arr_mbr_buffer' = r.dyn_struct_arr_mbr_buffer
       /\ dyn_class_arr_mbr_buffer' = r.dyn_class_arr_mbr_buffer
       /\ need_delete_param_buffer' = r.need_delete_param_buffer
    /\ pc' = "emitInit"
    /\ UNCHANGED <<tables, options, emit_calls, closed_files, run, hashing, passed,
                   null_stream>>

EmitInit ==
    /\ pc = "emitInit"
    /\ out_file' = out_file \o emitInit
    /\ pc' = "emitCheck"
    /\ UNCHANGED <<tables, options, emit_calls, closed_files, run, hashing, buffers, passed,
                   null_stream>>

\* emitCheck runs to its end or to ERROR("Unsupported"); where hashArray
\* reads steps out of bounds the read returns garbage or the process dies
EmitCheck ==
    /\ pc = "emitCheck"
    /\ \/ \E garbage \in 0..MaxGarbage :
             LET r == emitCheck(garbage) IN
             /\ out_file' = out_file \o r.stream
             /\ hash_seed' = r.hs.seed
             /\ hash_trace' = r.hs.trace
             /\ pc' = IF r.aborted THEN "aborted" ELSE "emitTest"
       \/ /\ emitCheckReadsOutOfBounds
          /\ pc' = "crashed"
          /\ UNCHANGED <<out_file, hash_seed, hash_trace>>
    /\ UNCHANGED <<tables, options, emit_calls, closed_files, run, hash_arg, buffers, passed,
                   null_stream>>

EmitTest ==
    /\ pc = "emitTest"
    /\ out_file' = out_file \o emitTest
    /\ pc' = "emitRelease"
    /\ UNCHANGED <<tables, options, emit_calls, closed_files, run, hashing, buffers, passed,
                   null_stream>>

EmitRelease ==
    /\ pc = "emitRelease"
    /\ out_file' = out_file \o emitRelease
    /\ pc' = "emitMain"
    /\ UNCHANGED <<tables, options, emit_calls, closed_files, run, hashing, buffers, passed,
                   null_stream>>

\* emitMain, then out_file.close()
EmitMain ==
    /\ pc = "emitMain"
    /\ out_file' = out_file \o emitMain
    /\ closed_files' = Append(closed_files, out_file')
    /\ pc' = "done"
    /\ UNCHANGED <<tables, options, emit_calls, run, hashing, buffers, passed,
                   null_stream>>

Next ==
    \/ EmitBegin
    \/ EmitExtDecl
    \/ OpenOutFile
    \/ EmitCheckFunc
    \/ EmitDecl
    \/ EmitInit
    \/ EmitCheck
    \/ EmitTest
    \/ EmitRelease
    \/ EmitMain

Spec == Init /\ [][Next]_vars

(***************************************************************************)
(* The mixing function alone: a seed and a value drawn from words that     *)
(* exercise the carries, the shifts and the wrap-around, and hash()        *)
(* applied to them.                                                        *)
(***************************************************************************)
AllOnesW == <<65535, 65535, 65535, 65535>>

HashSeeds == {ZeroW, AllOnesW, Golden, <<0, 0, 0, 32768>>, <<1, 2, 3, 65535>>,
              <<65535, 0, 65535, 1>>}

HashArgs == {ZeroW, NatW(1), NatW(5), AllOnesW, <<0, 0, 0, 49152>>}

InitHash ==
    /\ ext_inp_sym_tbl = Table(<<zero_var>>, <<>>)
    /\ ext_out_sym_tbl = Table(<<>>, <<>>)
    /\ options = [DefaultOptions EXCEPT !.check_algo = "PRECOMPUTE"]
    /\ emit_calls = 0
    /\ pc = "hash"
    /\ run = 0
    /\ hash_seed \in HashSeeds
    /\ hash_trace = <<>>
    /\ hash_arg \in HashArgs
    /\ struct_var_mbr_buffer = <<>>
    /\ class_var_mbr_buffer = <<>>
    /\ class_private_var_mbr_buffer = <<>>
    /\ dyn_struct_var_mbr_buffer = <<>>
    /\ dyn_class_var_mbr_buffer = <<>>
    /\ struct_arr_mbr_buffer = <<>>
    /\ class_arr_mbr_buffer = <<>>
    /\ dyn_struct_arr_mbr_buffer = <<>>
    /\ dyn_class_arr_mbr_buffer = <<>>
    /\ need_delete_param_buffer = <<>>
    /\ pass_as_param_buffer = <<>>
    /\ any_vars_as_params = FALSE
    /\ any_arrays_as_params = FALSE
    /\ null_stream = <<>>
    /\ out_file = <<>>
    /\ closed_files = <<>>

\* one call hash(hash_arg); the next call's argument is drawn
HashStep ==
    /\ pc = "hash"
    /\ Len(hash_trace) < MaxHashCalls
    /\ hash_seed' = HashCall([seed |-> hash_seed, trace |-> hash_trace],
                             hash_arg).seed
    /\ hash_trace' = Append(hash_trace, hash_arg)
    /\ hash_arg' \in HashArgs
    /\ UNCHANGED <<tables, options, emit_calls, closed_files, pc, run, buffers, passed,
                   null_stream, out_file>>

NextHash == HashStep

SpecHash == InitHash /\ [][NextHash]_vars

(***************************************************************************)
(* What the emitted program holds when its checksum routine runs.          *)
(***************************************************************************)
\* a value converted to unsigned long long
RuntimeWord(v) == IF v.is_negative THEN NegW(NatW(v.value)) ELSE NatW(v.value)

RECURSIVE RowMajor(_)
\* the index vectors of an array of these dimensions, in row-major order
RowMajor(dims) ==
    IF dims = <<>> THEN << <<>> >>
    ELSE LET rest == RowMajor(Tail(dims))
             Row[i \in 0..Head(dims)] ==
                 IF i = Head(dims) THEN <<>>
                 ELSE [k \in 1..Len(rest) |-> <<i>> \o rest[k]] \o Row[i + 1]
         IN  Row[0]

\* whether the element at this index vector belongs to the main value stream
OnMainStream(array, idx) ==
    \/ array.mul_vals_axis_idx = -1
    \/ idx[array.mul_vals_axis_idx + 1] % options.vals_number
          = options.main_val_idx

\* the final value of the k-th element (row-major, from 1): the current value
\* where the test body wrote it, the initial value elsewhere
ElementValue(array, k) ==
    LET main == OnMainStream(array, RowMajor(array.dims)[k]) IN
    IF k <= array.written THEN getCurrentValues(array, main)
    ELSE getInitValues(array, main)

RECURSIVE ScalarFinalWords(_, _)
ScalarFinalWords(vs, i) ==
    IF i > Len(vs) THEN <<>>
    ELSE <<RuntimeWord(vs[i].cur_value)>> \o ScalarFinalWords(vs, i + 1)

RECURSIVE ElementFinalWords(_, _)
ElementFinalWords(array, k) ==
    IF k > SeqProduct(array.dims) THEN <<>>
    ELSE <<RuntimeWord(ElementValue(array, k))>>
            \o ElementFinalWords(array, k + 1)

RECURSIVE ArrayFinalWords(_, _)
ArrayFinalWords(arrays, i) ==
    IF i > Len(arrays) THEN <<>>
    ELSE ElementFinalWords(arrays[i], 1) \o ArrayFinalWords(arrays, i + 1)

\* every output symbol's final value: the scalars in table order, then each
\* array's elements in row-major order
OutputFinalWords ==
    ScalarFinalWords(ext_out_sym_tbl.vars, 1)
        \o ArrayFinalWords(ext_out_sym_tbl.arrays, 1)

RECURSIVE MixAll(_, _, _)
\* the mixing function applied to words[i..] from this seed
MixAll(seed, words, i) ==
    IF i > Len(words) THEN seed
    ELSE MixAll(emitted_hash(seed, words[i]), words, i + 1)

\* the tokens of one section, and the tokens of given kinds
RECURSIVE Select(_, _, _, _)
Select(toks, i, secs, whats) ==
    IF i > Len(toks) THEN <<>>
    ELSE (IF toks[i].sec \in secs /\ toks[i].what \in whats
          THEN <<toks[i]>> ELSE <<>>) \o Select(toks, i + 1, secs, whats)

RECURSIVE NamesOf(_, _)
NamesOf(toks, i) ==
    IF i > Len(toks) THEN <<>> ELSE <<toks[i].name>> \o NamesOf(toks, i + 1)

Written(secs, whats) == NamesOf(Select(out_file, 1, secs, whats), 1)

\* the literal main() compares seed with
EmbeddedLiteral == Select(out_file, 1, {"main"}, {"expect"})[1].arg

FirstRunDone == pc = "done" /\ run = 1

(***************************************************************************)
(* C1: in Precompute mode the literal emitMain embeds equals the mixing    *)
(* function applied from 0 to every output symbol's final runtime value,   *)
(* the scalars in table order and then each array in row-major order.      *)
(***************************************************************************)
C1_LiteralIsChecksumOfFinalValues ==
    (FirstRunDone /\ options.check_algo = "PRECOMPUTE")
        => EmbeddedLiteral = MixAll(ZeroW, OutputFinalWords, 1)

(***************************************************************************)
(* C2: a call hash(v) on the generator changes hash_seed exactly as the    *)
(* emitted routine changes seed, seed XOR (v + 0x9e3779b9 + (seed << 6) +  *)
(* (seed >> 2)) mod 2^64; from seed 0 the value 5 gives 0x9e3779be.        *)
(***************************************************************************)
C2_HashIsEmittedRoutine ==
    [][pc = "hash" =>
          /\ hash_seed' = emitted_hash(hash_seed, hash_arg)
          /\ (hash_seed = ZeroW /\ hash_arg = NatW(5))
                => hash_seed' = <<31166, 40503, 0, 0>>]_vars

\* reached: hash(5) was called on seed 0 and left 0x9e3779be
C2_Witness ==
    /\ pc = "hash"
    /\ hash_trace = <<NatW(5)>>
    /\ hash_seed = <<31166, 40503, 0, 0>>

RECURSIVE LiveNames(_, _)
LiveNames(syms, i) ==
    IF i > Len(syms) THEN <<>>
    ELSE (IF syms[i].is_dead THEN <<>> ELSE <<syms[i].name>>)
            \o LiveNames(syms, i + 1)

RECURSIVE Restrict(_, _)
\* the entries of a sequence of names that belong to a set
Restrict(names, keep) ==
    IF names = <<>> THEN <<>>
    ELSE (IF Head(names) \in keep THEN <<Head(names)>> ELSE <<>>)
            \o Restrict(Tail(names), keep)

\* emitCheck has run in the first emission
CheckWritten ==
    run = 1 /\ pc \in {"emitTest", "emitRelease", "emitMain", "done"}

(***************************************************************************)
(* C3: in Hash and Precompute modes the checksum routine holds one hash    *)
(* call per live output scalar, in table order, and per live output array  *)
(* one hash call inside one loop per dimension; no live scalar is omitted. *)
(***************************************************************************)
C3_OneHashCallPerLiveOutput ==
    (CheckWritten /\ IsHashAlgo) =>
        LET live_vars == LiveNames(ext_out_sym_tbl.vars, 1)
            live_arrs == LiveNames(ext_out_sym_tbl.arrays, 1)
        IN  /\ Restrict(Written({"checksum"}, {"hash"}), SeqToSet(live_vars))
                 = live_vars
            /\ Restrict(Written({"checksum"}, {"hash_elem"}), SeqToSet(live_arrs))
                 = live_arrs
            /\ \A i \in 1..Len(ext_out_sym_tbl.arrays) :
                  LET a == ext_out_sym_tbl.arrays[i] IN
                  ~a.is_dead =>
                     Restrict(Written({"checksum"}, {"for"}), {a.name})
                        = [d \in 1..Len(a.dims) |-> a.name]

(***************************************************************************)
(* The parameter surface: what one emission rendered for the input symbols.*)
(***************************************************************************)
Aggregates == <<"struct_1", "struct_2", "object_1", "object_2">>

SigEntries ==
    Written({"test"}, {"param", "shared_ptr_param", "unique_ptr_param"})

CallEntries == Written({"main"}, {"arg", "move_arg"})

ExternEntries == NamesOf(Select(null_stream, 1, {"extdecl"}, {"extern"}), 1)

InputSymbols ==
    SeqToSet(ext_inp_sym_tbl.vars) \cup SeqToSet(ext_inp_sym_tbl.arrays)

AllSymbols ==
    InputSymbols \cup SeqToSet(ext_out_sym_tbl.vars)
                 \cup SeqToSet(ext_out_sym_tbl.arrays)

Passed(sym) == sym.name \in SeqToSet(pass_as_param_buffer)

RECURSIVE PassedNames(_, _)
\* the symbols of a table the parameter list renders, in table order
PassedNames(syms, i) ==
    IF i > Len(syms) THEN <<>>
    ELSE (IF ~SkipDead(syms[i]) /\ Passed(syms[i])
             /\ syms[i].kind \notin VarMemberKinds
          THEN <<syms[i].name>> ELSE <<>>) \o PassedNames(syms, i + 1)

LastFour(q) == SubSeq(q, Len(q) - 3, Len(q))

C5_AggregatesLast ==
    pc = "done" =>
        /\ LastFour(SigEntries) = Aggregates
        /\ LastFour(CallEntries) = Aggregates

(***************************************************************************)
(* C5 amended: the signature and the call site list the passed scalars in  *)
(* table order, then struct_1, struct_2, object_1, object_2, then the      *)
(* passed arrays in table order; the aggregates are the last four entries  *)
(* exactly when no array is passed.                                        *)
(***************************************************************************)
C5_AggregatesBetweenScalarsAndArrays ==
    pc = "done" =>
        LET scalars == PassedNames(ext_inp_sym_tbl.vars, 1)
            arrays == PassedNames(ext_inp_sym_tbl.arrays, 1)
        IN  /\ SigEntries = scalars \o Aggregates \o arrays
            /\ CallEntries = scalars \o Aggregates \o arrays
            /\ (LastFour(SigEntries) = Aggregates) <=> (arrays = <<>>)

\* reached: a scalar and an array are both passed
C5_Witness ==
    /\ pc = "done"
    /\ PassedNames(ext_inp_sym_tbl.vars, 1) # <<>>
    /\ PassedNames(ext_inp_sym_tbl.arrays, 1) # <<>>
    /\ SigEntries[Len(SigEntries)] \notin SeqToSet(Aggregates)

(***************************************************************************)
(* C6: the symbols rendered as parameters in the signature and the symbols *)
(* rendered as arguments at the call site are the same sequence.           *)
(***************************************************************************)
C6_SignatureMatchesCallSite == pc = "done" => SigEntries = CallEntries

\* reached: a unique pointer is moved into the call and an array is passed
C6_Witness ==
    /\ pc = "done"
    /\ Written({"main"}, {"move_arg"}) # <<>>
    /\ Written({"test"}, {"unique_ptr_param"}) # <<>>
    /\ Len(CallEntries) >= 6

(***************************************************************************)
(* C7: after one run Release holds one delete per Raw pointer emitPtrDecl  *)
(* declared, in registration order (input table, then output table), none  *)
(* for a Shared or Unique pointer, then one for struct_2 and for object_2. *)
(***************************************************************************)
RECURSIVE RawPointers(_, _)
RawPointers(vs, i) ==
    IF i > Len(vs) THEN <<>>
    ELSE (IF vs[i].kind = "PTR" /\ vs[i].ptr_type = "RAW"
          THEN <<vs[i].name>> ELSE <<>>) \o RawPointers(vs, i + 1)

C7_OneDeletePerRawPointer ==
    FirstRunDone =>
        LET deleted == Written({"release"}, {"delete"}) IN
        /\ deleted = Written({"ptrs"}, {"new"}) \o <<"struct_2", "object_2">>
        /\ Written({"ptrs"}, {"new"})
              = RawPointers(ext_inp_sym_tbl.vars, 1)
                   \o RawPointers(ext_out_sym_tbl.vars, 1)
        /\ SeqToSet(Written({"ptrs"}, {"make_shared", "make_unique"}))
              \cap SeqToSet(deleted) = {}

\* reached: a Raw pointer of each table is declared and released
C7_Witness ==
    /\ FirstRunDone
    /\ Written({"release"}, {"delete"})
          = <<"var_1", "var_4", "struct_2", "object_2">>

(***************************************************************************)
(* The classification buffers.                                             *)
(***************************************************************************)
AllBuffers ==
    struct_var_mbr_buffer \o class_var_mbr_buffer
        \o class_private_var_mbr_buffer \o dyn_struct_var_mbr_buffer
        \o dyn_class_var_mbr_buffer \o struct_arr_mbr_buffer
        \o class_arr_mbr_buffer \o dyn_struct_arr_mbr_buffer
        \o dyn_class_arr_mbr_buffer

Count(name, q) == Cardinality({k \in 1..Len(q) : q[k] = name})

IsArray(sym) == "dims" \in DOMAIN sym

\* the buffer that matches a symbol's Kind
BufferOf(sym) ==
    IF IsArray(sym)
    THEN CASE sym.kind = "STRUCT_MBR" -> struct_arr_mbr_buffer
           [] sym.kind = "CLASS_MBR" -> class_arr_mbr_buffer
           [] sym.kind = "DYN_STRUCT_MBR" -> dyn_struct_arr_mbr_buffer
           [] sym.kind = "DYN_CLASS_MBR" -> dyn_class_arr_mbr_buffer
           [] OTHER -> <<>>
    ELSE CASE sym.kind = "STRUCT_MBR" -> struct_var_mbr_buffer
           [] sym.kind = "CLASS_MBR" -> class_var_mbr_buffer
           [] sym.kind = "CLASS_PRIVATE_MBR" -> class_private_var_mbr_buffer
           [] sym.kind = "DYN_STRUCT_MBR" -> dyn_struct_var_mbr_buffer
           [] sym.kind = "DYN_CLASS_MBR" -> dyn_class_var_mbr_buffer
           [] OTHER -> <<>>

\* emitDecl has run once, from empty buffers
DeclDone ==
    run = 1 /\ pc \in {"emitInit", "emitCheck", "emitTest", "emitRelease",
                       "emitMain", "done", "crashed"}

(***************************************************************************)
(* C8 as stated: after one run of emitDecl every symbol of an aggregate-   *)
(* member Kind is exactly once in the buffers, in the buffer of its Kind,  *)
(* whatever its dead flag; no other symbol is in any buffer.               *)
(***************************************************************************)
C8_EveryMemberClassifiedOnce ==
    DeclDone =>
        \A sym \in AllSymbols :
           IF sym.kind \in VarMemberKinds
           THEN Count(sym.name, AllBuffers) = 1
                   /\ Count(sym.name, BufferOf(sym)) = 1
           ELSE Count(sym.name, AllBuffers) = 0

(***************************************************************************)
(* C8 amended: after one run of emitDecl every symbol of an aggregate-     *)
(* member Kind that the dead-data filter keeps (it is live, or retention   *)
(* is enabled) is exactly once in the buffers, in the buffer of its Kind;  *)
(* a dead one with retention disabled is in no buffer; no Ordinary or      *)
(* Pointer symbol is in any buffer.                                        *)
(***************************************************************************)
C8_KeptMemberClassifiedOnce ==
    DeclDone =>
        \A sym \in AllSymbols :
           IF sym.kind \in VarMemberKinds /\ ~SkipDead(sym)
           THEN Count(sym.name, AllBuffers) = 1
                   /\ Count(sym.name, BufferOf(sym)) = 1
           ELSE Count(sym.name, AllBuffers) = 0

\* reached: a dead private member is retained and classified
C8_Witness ==
    /\ DeclDone
    /\ options.allow_dead_data
    /\ \E sym \in AllSymbols :
          /\ sym.is_dead
          /\ sym.kind = "CLASS_PRIVATE_MBR"
          /\ class_private_var_mbr_buffer = <<sym.name>>

(***************************************************************************)
(* C9: with dead-data retention disabled no dead symbol is rendered in the *)
(* declarations, init, the checksum routine, the signature or the call.    *)
(***************************************************************************)
C9_NoDeadSymbolRendered ==
    (FirstRunDone /\ ~options.allow_dead_data) =>
        \A k \in 1..Len(out_file) :
           out_file[k].sec \in {"vars", "ptrs", "arrays", "struct", "dynstruct",
                                "class", "dynclass", "init", "checksum",
                                "test", "main"}
              => \A sym \in AllSymbols :
                    sym.is_dead => out_file[k].name # sym.name

(***************************************************************************)
(* C10: for an array with a multi-value axis, period N and main index m,   *)
(* the element at index i on that axis takes its value from the main       *)
(* stream iff i mod N = m, in the assignment init renders and in the value *)
(* hashArray mixes for the element.                                        *)
(***************************************************************************)
C10_StreamSelection ==
    (CheckWritten /\ options.check_algo = "PRECOMPUTE"
        /\ ext_out_sym_tbl.vars = <<>> /\ Len(ext_out_sym_tbl.arrays) = 1
        /\ ext_out_sym_tbl.arrays[1].mul_vals_axis_idx # -1
        /\ ext_out_sym_tbl.arrays[1].kind = "NORMAL"
        /\ ~ext_out_sym_tbl.arrays[1].is_dead) =>
        LET a == ext_out_sym_tbl.arrays[1]
            init == Select(out_file, 1, {"init"},
                           {"select", "const", "else_const"})
        IN  /\ Len(init) = 3
            /\ init[1].arg = <<a.mul_vals_axis_idx, options.vals_number,
                               options.main_val_idx>>
            /\ init[2].arg = <<Lit(getInitValues(a, TRUE))>>
            /\ init[3].arg = <<Lit(getInitValues(a, FALSE))>>
            /\ Len(hash_trace) = SeqProduct(a.dims)
            /\ \A k \in 1..Len(hash_trace) :
                  LET main == OnMainStream(a, RowMajor(a.dims)[k]) IN
                  hash_trace[k] \in {NatW(getInitValues(a, main).value),
                                     NatW(getCurrentValues(a, main).value)}

(***************************************************************************)
(* Repeated calls of emit() on one generator.                              *)
(***************************************************************************)
\* no call of emit() so far left an entry in a classification, release or
\* passed-parameter buffer, so every call started with them empty
BuffersStayedEmpty ==
    /\ AllBuffers = <<>>
    /\ need_delete_param_buffer = <<>>
    /\ pass_as_param_buffer = <<>>

(***************************************************************************)
(* C11: two emission runs on the same program, symbol tables and Options,  *)
(* each started with empty classification, release and passed-parameter    *)
(* buffers, write the same text.                                           *)
(***************************************************************************)
C11_RerunWritesSameText ==
    (pc = "done" /\ run >= 2 /\ BuffersStayedEmpty)
        => closed_files[run] = closed_files[run - 1]

(***************************************************************************)
(* C12: when the checksum algorithm is none of Asserts, Hash, Precompute   *)
(* an emission run ends in ERROR("Unsupported"): it never gets past        *)
(* emitCheck, whatever the output symbol table.                            *)
(***************************************************************************)
C12_UnsupportedAlgoAborts ==
    options.check_algo \notin {"ASSERTS", "HASH", "PRECOMPUTE"}
        => pc \notin {"emitTest", "emitRelease", "emitMain", "done"}

(***************************************************************************)
(* C13: the emitted main calls init, test, checksum and Release once each, *)
(* in that order, then prints the seed and only then tests it against the  *)
(* embedded literal (Precompute) or tests value_mismatch (Asserts).        *)
(***************************************************************************)
C13_MainCallsInOrder ==
    pc = "done" =>
        Written({"main"}, {"call", "open", "print", "expect"})
           = <<"init", "test", "checksum", "Release", "seed">>
                \o (IF options.check_algo = "PRECOMPUTE" THEN <<"seed">> ELSE <<>>)
                \o (IF options.check_algo = "ASSERTS"
                    THEN <<"value_mismatch">> ELSE <<>>)

\* reached: the checksum routine reads a heap pointer that Release deletes
C13_Witness ==
    /\ pc = "done"
    /\ Written({"main"}, {"call"}) = <<"init", "checksum", "Release">>
    /\ SeqToSet(Written({"checksum"}, {"hash"}))
          \cap SeqToSet(need_delete_param_buffer) # {}
    /\ SeqToSet(need_delete_param_buffer)
          \subseteq SeqToSet(Written({"release"}, {"delete"}))


\* whether the k-th token of the text declares the symbol: a standalone
\* declaration, a pointer allocation, or a member of an aggregate
DeclaresAt(k, name) ==
    /\ out_file[k].name = name
    /\ \/ out_file[k].sec \in {"vars", "arrays"} /\ out_file[k].what = "decl"
       \/ out_file[k].sec = "ptrs"
       \/ out_file[k].what \in {"member", "array_member", "private_member"}

\* whether the k-th token of the text gives the symbol a value: a scalar
\* declaration with its initializer, or an assignment of init or of the
\* DynamicClass constructor
InitializesAt(k, name) ==
    /\ out_file[k].name = name
    /\ \/ out_file[k].sec = "vars" /\ out_file[k].what = "decl"
       \/ out_file[k].sec = "ptrs"
       \/ out_file[k].what \in {"member", "private_member"}
       \/ out_file[k].what \in {"assign", "assign_elem", "ctor_assign"}

ChecksumReferenceAt(k) ==
    /\ out_file[k].sec = "checksum"
    /\ out_file[k].what \in {"hash", "assert", "hash_elem", "assert_elem"}

SectionBefore(section) ==
    CASE section = "open" -> "emitExtDecl"
      [] section = "emitCheckFunc" -> "open"
      [] section = "emitDecl" -> "emitCheckFunc"
      [] section = "emitInit" -> "emitDecl"
      [] section = "emitCheck" -> "emitInit"
      [] section = "emitTest" -> "emitCheck"
      [] section = "emitRelease" -> "emitTest"
      [] section = "emitMain" -> "emitRelease"
      [] section = "done" -> "emitMain"

Sections == {"open", "emitCheckFunc", "emitDecl", "emitInit", "emitCheck",
             "emitTest", "emitRelease", "emitMain", "done"}

\* the comparison of seed that one run of emitMain appended to the text
ExpectWrittenBy(before, after) ==
    Select(after, Len(before) + 1, {"main"}, {"expect"})

(***************************************************************************)
(* C15: within one call of emit() the sections run in one fixed order, the *)
(* classification buffers and need_delete_param_buffer are written by      *)
(* emitDecl only, pass_as_param_buffer by emitExtDecl only and hash_seed   *)
(* by emitCheck only, all of them before emitInit, emitCheck, emitTest,    *)
(* emitRelease and emitMain read them; the literal emitMain embeds is      *)
(* hash_seed as emitCheck left it.                                         *)
(***************************************************************************)
C15_WritesPrecedeReads ==
    [][/\ pc' \in Sections => pc = SectionBefore(pc')
       /\ buffers' # buffers => pc = "emitDecl"
       /\ passed' # passed => pc = "emitExtDecl"
       /\ hash_seed' # hash_seed => pc = "emitCheck"
       /\ (pc = "emitMain" /\ options.check_algo = "PRECOMPUTE")
             => /\ hash_seed' = hash_seed
                /\ ExpectWrittenBy(out_file, out_file')
                      = <<Tok("main", "expect", "seed", hash_seed)>>]_vars

C15_Witness ==
    /\ pc = "done"
    /\ options.check_algo = "PRECOMPUTE"
    /\ struct_var_mbr_buffer # <<>>
    /\ need_delete_param_buffer # <<>>
    /\ pass_as_param_buffer # <<>>
    /\ hash_seed # ZeroW
    /\ EmbeddedLiteral = hash_seed


\* the run-time effect of `value_mismatch |= x != l1 && x != l2 ...` when x
\* holds v: the flag is set iff v differs from every literal of the statement
FlagSetBy(statement, v) ==
    \A j \in 1..Len(statement.arg) : v # statement.arg[j]

\* the values an array element is accepted with: the main current and
\* initial value, and on a multi-value axis the alternate ones too
ExpectedLiterals(array) ==
    {Lit(getCurrentValues(array, TRUE)), Lit(getInitValues(array, TRUE))}
        \cup (IF array.mul_vals_axis_idx # -1
              THEN {Lit(getCurrentValues(array, FALSE)),
                    Lit(getInitValues(array, FALSE))}
              ELSE {})

\* the values the statement reads: the initial value is accepted on a
\* multi-value axis only
ExpectedLiteralsAsStated(array) ==
    {Lit(getCurrentValues(array, TRUE))}
        \cup (IF array.mul_vals_axis_idx # -1
              THEN {Lit(getInitValues(array, TRUE)),
                    Lit(getCurrentValues(array, FALSE)),
                    Lit(getInitValues(array, FALSE))}
              ELSE {})

\* run-time values to try a statement on: every literal of the symbol's
\* value streams, and one value that is none of them
ArrayProbes(array) ==
    LET lits == {Lit(getCurrentValues(array, TRUE)), Lit(getInitValues(array, TRUE)),
                 Lit(getCurrentValues(array, FALSE)),
                 Lit(getInitValues(array, FALSE))}
    IN  lits \cup {getCurrentValues(array, TRUE).value
                     + getInitValues(array, TRUE).value
                     + getCurrentValues(array, FALSE).value
                     + getInitValues(array, FALSE).value + 1}

ScalarProbes(var) ==
    {Lit(var.cur_value), Lit(var.init_value),
     var.cur_value.value + var.init_value.value + 1}

\* the flag is only ever OR-ed into, by one statement per checked symbol
AssertsChecksum(expected(_)) ==
    /\ hash_seed = ZeroW
    /\ hash_trace = <<>>
    /\ Select(out_file, 1, {"checksum"}, {"hash", "hash_elem"}) = <<>>
    /\ \A k \in 1..Len(out_file) :
          /\ (out_file[k].sec = "checksum" /\ out_file[k].what = "assert")
                => \A v \in ScalarProbes(VarOf(out_file[k].name)) :
                      FlagSetBy(out_file[k], v)
                         <=> v # Lit(VarOf(out_file[k].name).cur_value)
          /\ (out_file[k].sec = "checksum" /\ out_file[k].what = "assert_elem")
                => \A v \in ArrayProbes(ArrayOf(out_file[k].name)) :
                      FlagSetBy(out_file[k], v)
                         <=> v \notin expected(ArrayOf(out_file[k].name))

InitWritten ==
    run = 1 /\ pc \in {"emitCheck", "emitTest", "emitRelease", "emitMain", "done"}

\* the member scalars init assigns, in the order of their statements
InitAssigned == Written({"init"}, {"assign"})

\* init assigns every entry of the buffer once, in buffer order
AssignedInBufferOrder(buffer) ==
    Restrict(InitAssigned, SeqToSet(buffer)) = buffer

(***************************************************************************)
(* C17: init holds exactly one assignment, in buffer order, for every      *)
(* scalar of the static struct, dynamic struct, class public and class     *)
(* private buffers, and none for a DynamicClassMember scalar.              *)
(***************************************************************************)
C17_EveryMemberBufferAssigned ==
    InitWritten =>
        /\ AssignedInBufferOrder(struct_var_mbr_buffer)
        /\ AssignedInBufferOrder(dyn_struct_var_mbr_buffer)
        /\ AssignedInBufferOrder(class_var_mbr_buffer)
        /\ AssignedInBufferOrder(class_private_var_mbr_buffer)
        /\ SeqToSet(InitAssigned) \cap SeqToSet(dyn_class_var_mbr_buffer) = {}


\* how many times emitDecl has run to its end in this process
DeclRuns ==
    IF pc \in {"emitExtDecl", "open", "emitCheckFunc", "emitDecl"}
    THEN run - 1 ELSE run

IsMember(sym) ==
    IF IsArray(sym) THEN sym.kind \in ArrMemberKinds
    ELSE sym.kind \in VarMemberKinds

IsRawPointer(sym) ==
    ~IsArray(sym) /\ sym.kind = "PTR" /\ sym.ptr_type = "RAW"

(***************************************************************************)
(* C18: after emitDecl has run k times on one generator, with nothing      *)
(* clearing the buffers in between, every live symbol of an aggregate-     *)
(* member Kind is exactly k times in the buffer of its Kind and every Raw  *)
(* pointer exactly k times in need_delete_param_buffer.                    *)
(***************************************************************************)
C18_DeclRunsDuplicateEntries ==
    pc # "aborted" =>
        \A sym \in AllSymbols :
            /\ (IsMember(sym) /\ ~sym.is_dead)
                  => Count(sym.name, BufferOf(sym)) = DeclRuns
            /\ IsRawPointer(sym)
                  => Count(sym.name, need_delete_param_buffer) = DeclRuns

C18_Witness ==
    /\ pc = "done"
    /\ run = 2
    /\ \E sym \in AllSymbols :
          /\ IsMember(sym) /\ ~IsArray(sym) /\ ~sym.is_dead
          /\ Count(sym.name, BufferOf(sym)) = 2
    /\ \E sym \in AllSymbols :
          /\ IsMember(sym) /\ IsArray(sym) /\ ~sym.is_dead
          /\ Count(sym.name, BufferOf(sym)) = 2
    /\ \E sym \in AllSymbols :
          IsRawPointer(sym) /\ Count(sym.name, need_delete_param_buffer) = 2


\* the output arrays emitCheck hands to hashArray
WalkedArrays ==
    IF options.check_algo = "PRECOMPUTE"
    THEN {a \in SeqToSet(ext_out_sym_tbl.arrays) : a.kind # "DYN_CLASS_MBR"}
    ELSE {}

(***************************************************************************)
(* C19: when emitCheck is about to run, for every array hashArray will     *)
(* walk, steps holds one entry per dimension and every entry is non-zero,  *)
(* so that each read steps[cur_idx] of hashArrayStep is within bounds and  *)
(* i % cur_step is defined.                                                *)
(***************************************************************************)
C19_StepsCoverEveryDimension ==
    pc = "emitCheck" =>
        \A a \in WalkedArrays :
            /\ ~StepsReadOutOfBounds(a.dims)
            /\ Len(steps) = Len(a.dims)
            /\ \A j \in 1..Len(steps) : steps[j] # 0


\* the values hash() receives for the output scalars: the scalar loop of
\* emitCheck leaves at the first DynamicClassMember scalar
RECURSIVE ScalarsHashed(_, _)
ScalarsHashed(vs, i) ==
    IF i > Len(vs) \/ vs[i].kind = "DYN_CLASS_MBR" THEN <<>>
    ELSE <<NatW(vs[i].cur_value.value)>> \o ScalarsHashed(vs, i + 1)

\* the initial value hashArray reads, once per element of the array
InitialPerElement(array) ==
    [k \in 1..SeqProduct(array.dims) |->
        NatW(getInitValues(array, AsBool(options.main_val_idx)).value)]

RECURSIVE ArraysHashed(_, _)
ArraysHashed(arrays, i) ==
    IF i > Len(arrays) THEN <<>>
    ELSE (IF arrays[i].kind = "DYN_CLASS_MBR" THEN <<>>
          ELSE InitialPerElement(arrays[i])) \o ArraysHashed(arrays, i + 1)

(***************************************************************************)
(* C20: in a Precompute run whose emitCheck returns, hash() is called once *)
(* per output scalar and then, for every array hashArray walks, exactly    *)
(* once per element (the product of the dimensions), each time with the    *)
(* array's initial value and never with its current value.                 *)
(***************************************************************************)
C20_WalkMixesInitialValuePerElement ==
    (CheckWritten /\ options.check_algo = "PRECOMPUTE") =>
        hash_trace = ScalarsHashed(ext_out_sym_tbl.vars, 1)
                        \o ArraysHashed(ext_out_sym_tbl.arrays, 1)

C20_Witness ==
    /\ pc = "done"
    /\ run = 1
    /\ options.check_algo = "PRECOMPUTE"
    /\ \E a \in WalkedArrays :
          /\ Len(a.dims) = 2
          /\ SeqProduct(a.dims) = 4
          /\ a.written = 4
          /\ a.mul_vals_axis_idx # -1
          /\ Len(hash_trace) = 5
          /\ \A k \in 2..5 :
                /\ hash_trace[k] = NatW(getInitValues(a, AsBool(options.main_val_idx)).value)
                /\ hash_trace[k] # NatW(getCurrentValues(a, TRUE).value)
                /\ hash_trace[k] # NatW(getCurrentValues(a, FALSE).value)


\* the output scalars whose hash call emitCheck reaches: the scalar loop
\* leaves at the first DynamicClassMember scalar
RECURSIVE ScalarsWalked(_, _)
ScalarsWalked(vs, i) ==
    IF i > Len(vs) \/ vs[i].kind = "DYN_CLASS_MBR" THEN <<>>
    ELSE <<vs[i]>> \o ScalarsWalked(vs, i + 1)

(***************************************************************************)
(* C21: in a Precompute run, for every output scalar emitCheck hashes,     *)
(* one with a negative final value included, the value handed to the       *)
(* generation-time hash equals the value the emitted call                  *)
(* hash(&seed, var) receives: the scalar converted to unsigned long long,  *)
(* modulo 2^64.                                                            *)
(***************************************************************************)
C21_HashedValueIsRuntimeWord ==
    (CheckWritten /\ options.check_algo = "PRECOMPUTE") =>
        LET walked == ScalarsWalked(ext_out_sym_tbl.vars, 1) IN
        \A i \in 1..Len(walked) :
            hash_trace[i] = RuntimeWord(walked[i].cur_value)


\* the text between "test(" and ")" in the section: the signature in
\* "test", the call site in "main"
ParamList(sec) ==
    LET open == CHOOSE k \in 1..Len(out_file) :
                    out_file[k] = Tok(sec, "open", "test", <<>>)
        close == CHOOSE k \in 1..Len(out_file) :
                    out_file[k] = Tok(sec, "close", "test", <<>>)
    IN  SubSeq(out_file, open + 1, close - 1)

\* a comma-separated list: no separator in front, no two separators in a row
WellFormedList(list) ==
    /\ list # <<>> => list[1].what # "sep"
    /\ \A k \in 1..(Len(list) - 1) :
          ~(list[k].what = "sep" /\ list[k + 1].what = "sep")

(***************************************************************************)
(* C22: in the text of a finished run the parameter list of test(), in the *)
(* signature and at the call site, never starts with a separator and never *)
(* holds two adjacent separators, under every passing policy and for every *)
(* symbol table, also when no input scalar is passed.                      *)
(***************************************************************************)
C22_ParameterListWellFormed ==
    FirstRunDone =>
        /\ WellFormedList(ParamList("test"))
        /\ WellFormedList(ParamList("main"))


\* the literal main() compares seed with in the text the n-th emit() closed
LiteralOfRun(n) == Select(closed_files[n], 1, {"main"}, {"expect"})[1].arg

(***************************************************************************)
(* C23: in Precompute mode hash_seed is 0 whenever emitCheck begins its    *)
(* walk, in every call of emit() on one generator, and the literal the     *)
(* n-th call embeds equals the literal the first call embedded.            *)
(***************************************************************************)
C23_SeedZeroAtEveryWalk ==
    options.check_algo = "PRECOMPUTE" =>
        /\ pc = "emitCheck" => hash_seed = ZeroW
        /\ \A n \in 1..Len(closed_files) : LiteralOfRun(n) = LiteralOfRun(1)

====
